---------------------------- MODULE Spec2Model ----------------------------
(***************************************************************************)
(* A model of the memory-game backend: GamesService (createGame, findGame, *)
(* makeMove, getGameState, getGameHistory) over the persisted collection   *)
(* of Game documents.                                                      *)
(*                                                                         *)
(* Strings the code inspects character by character (session keys, which   *)
(* are trimmed, and card positions, which are matched against a regular    *)
(* expression) are sequences of one-character strings: "A1" is <<"A","1">>.*)
(* An optional value is a sequence of length 0 (undefined / null) or 1.    *)
(***************************************************************************)
EXTENDS Integers, Sequences, FiniteSets, TLC

VARIABLES
    games,      \* the persisted collection: a set of Game documents
    now,        \* the latest time any `new Date()` has returned (ms)
    last,       \* the request served last, with its response
    calls       \* the calls suspended between their query and their save

vars == <<games, now, last, calls>>

---------------------------------------------------------------------------
(* Bounds of the model.                                                    *)

\* Sessions the collection may hold.
MaxSessions == 1

\* Successful moves a client may make away from its memorised script.
MaxExplore == 1

\* makeMove calls that may be suspended at the same time.
MaxInFlight == 2

\* Iterations of the shuffle, counted from its first, whose random draw is
\* unconstrained.
MaxFreeDraws == 2

\* The attempts and the completion times (in seconds) scores are
\* calculated for; times are whole and half seconds.
MaxAttempts == 201

MaxSeconds == 1001

\* Sessions in the store the leaderboard is asked about.
MaxStored == 3


---------------------------------------------------------------------------
(* Constants of the program.                                               *)

animals == <<"Dog", "Cat", "Elephant", "Lion", "Tiger", "Bear", "Rabbit", "Horse">>

validPositions ==
    << <<"A","1">>, <<"A","2">>, <<"A","3">>, <<"A","4">>,
       <<"B","1">>, <<"B","2">>, <<"B","3">>, <<"B","4">>,
       <<"C","1">>, <<"C","2">>, <<"C","3">>, <<"C","4">>,
       <<"D","1">>, <<"D","2">>, <<"D","3">>, <<"D","4">> >>

\* JavaScript's undefined, for a string-valued input that was not given.
Undefined == <<"undefined">>

---------------------------------------------------------------------------
(* Helpers on sequences.                                                   *)

Range(s) == {s[i] : i \in DOMAIN s}

Last(s) == s[Len(s)]

Front(s) == SubSeq(s, 1, Len(s) - 1)

Min(a, b) == IF a <= b THEN a ELSE b

\* cards.find(c => c.position === position): the first card at the
\* position, as an optional.
find(cards, position) ==
    LET hits == {i \in DOMAIN cards : cards[i].position = position}
    IN  IF hits = {} THEN <<>>
        ELSE <<cards[CHOOSE i \in hits : \A j \in hits : i <= j]>>

\* The index of the card at a position (used once find() has succeeded).
IndexOf(cards, position) ==
    CHOOSE i \in DOMAIN cards :
        /\ cards[i].position = position
        /\ \A j \in DOMAIN cards : cards[j].position = position => i <= j

---------------------------------------------------------------------------
(* Exceptions: a validation returns Pass or the exception it throws.       *)

Pass == [status |-> "ok", message |-> ""]

BadRequestException(message) == [status |-> "BadRequest", message |-> message]

NotFoundException(message) == [status |-> "NotFound", message |-> message]

\* An error of the storage driver, which no handler catches (HTTP 500).
ServerError(message) == [status |-> "ServerError", message |-> message]

---------------------------------------------------------------------------
(* String.prototype.trim and validateSessionKey.                           *)

\* The characters of WhiteSpace and LineTerminator that cannot be written
\* in a string here, each written as its code point: the vertical tab, the
\* no-break space, the space separators, the line and paragraph separators
\* and the byte order mark.
UnicodeWhitespace ==
    {"U+000B", "U+00A0", "U+1680", "U+2000", "U+2001", "U+2002", "U+2003",
     "U+2004", "U+2005", "U+2006", "U+2007", "U+2008", "U+2009", "U+200A",
     "U+2028", "U+2029", "U+202F", "U+205F", "U+3000", "U+FEFF"}

\* The characters String.prototype.trim removes.
IsWhitespace(c) == c \in {" ", "\t", "\n", "\r", "\f"} \cup UnicodeWhitespace

RECURSIVE trimStart(_)
trimStart(s) ==
    IF Len(s) > 0 /\ IsWhitespace(Head(s)) THEN trimStart(Tail(s)) ELSE s

RECURSIVE trimEnd(_)
trimEnd(s) ==
    IF Len(s) > 0 /\ IsWhitespace(Last(s)) THEN trimEnd(Front(s)) ELSE s

trim(s) == trimEnd(trimStart(s))

\* JavaScript truthiness of an optional string: undefined and "" are falsy.
Falsy(s) == s = Undefined \/ Len(s) = 0

validateSessionKey(sessionKey) ==
    IF Falsy(sessionKey) \/ Len(trim(sessionKey)) = 0
    THEN BadRequestException("Session key is required")
    ELSE Pass

---------------------------------------------------------------------------
(* validateCardPositions.                                                  *)

\* /^[A-D][1-4]$/.test(position)
positionRegex(position) ==
    /\ Len(position) = 2
    /\ position[1] \in {"A", "B", "C", "D"}
    /\ position[2] \in {"1", "2", "3", "4"}

validPositionsSet == Range(validPositions)

\* validateCardPositions without the test for a repeated position.
validateCardPositionsNoRepeatTest(positions) ==
    IF Len(positions) # 2
    THEN BadRequestException("Must select exactly 2 cards")
    ELSE IF ~positionRegex(positions[1]) \/ ~positionRegex(positions[2])
    THEN BadRequestException("Card positions must be in in the range A - D, 1 - 4.")
    ELSE Pass

\* validateCardPositions that refuses short lists only.
validateCardPositionsAtLeastTwo(positions) ==
    IF Len(positions) < 2
    THEN BadRequestException("Must select exactly 2 cards")
    ELSE IF positions[1] = positions[2]
    THEN BadRequestException("Cannot select the same card twice")
    ELSE IF ~positionRegex(positions[1]) \/ ~positionRegex(positions[2])
    THEN BadRequestException("Card positions must be in in the range A - D, 1 - 4.")
    ELSE Pass

validateCardPositions(positions) ==
    IF Len(positions) # 2
    THEN BadRequestException("Must select exactly 2 cards")
    ELSE IF positions[1] = positions[2]
    THEN BadRequestException("Cannot select the same card twice")
    ELSE IF ~positionRegex(positions[1]) \/ ~positionRegex(positions[2])
    THEN BadRequestException("Card positions must be in in the range A - D, 1 - 4.")
    ELSE IF positions[1] \notin validPositionsSet \/ positions[2] \notin validPositionsSet
    THEN BadRequestException("Invalid card positions")
    ELSE Pass

---------------------------------------------------------------------------
(* createShuffledCards: the Fisher-Yates shuffle of the doubled animal     *)
(* list.  rnd[i] is the value of Math.floor(Math.random() * (i + 1)) drawn *)
(* in the iteration with loop index i, so 0 <= rnd[i] <= i.  Arrays are    *)
(* 1-based here: the code's animalPairs[i] is animalPairs[i + 1].          *)

\* A swap that loses the element at i.
SwapOverwrites(arr, i, j) == [arr EXCEPT ![i + 1] = arr[j + 1]]

Swap(arr, i, j) == [arr EXCEPT ![i + 1] = arr[j + 1], ![j + 1] = arr[i + 1]]

RECURSIVE shuffle(_, _, _)
shuffle(arr, i, rnd) ==
    IF i > 0 THEN shuffle(Swap(arr, i, rnd[i]), i - 1, rnd) ELSE arr

createShuffledCards(rnd) ==
    LET animalPairs == shuffle(animals \o animals, 2 * Len(animals) - 1, rnd)
    IN  [index \in 1..Len(validPositions) |->
            [animal     |-> animalPairs[index],
             position   |-> validPositions[index],
             isMatched  |-> FALSE,
             isRevealed |-> FALSE]]

---------------------------------------------------------------------------
(* The Game collection.  A document holds the fields of the schema and    *)
(* the number of times it was written (version); a card's id is a fresh    *)
(* uuid that no operation reads, and is left out.  The schema declares     *)
(* sessionKey                                                              *)
(* unique, so the collection never holds two documents with one key and a  *)
(* document is identified by its key.                                      *)

\* Model.findOne(filter): a document whose fields equal those of the
\* filter, or null (<<>>).
findOne(coll, filter) ==
    LET hits == {g \in coll : \A f \in DOMAIN filter : g[f] = filter[f]}
    IN  IF hits = {} THEN <<>> ELSE <<CHOOSE g \in hits : TRUE>>

\* newGame that stores the cards face up.
newGameFaceUp(sessionKey, shuffledCards, startTime) ==
    [sessionKey   |-> sessionKey,
     cards        |-> [i \in DOMAIN shuffledCards |->
                          [shuffledCards[i] EXCEPT !.isRevealed = TRUE]],
     moves        |-> <<>>,
     attempts     |-> 0,
     startTime    |-> startTime,
     endTime      |-> <<>>,
     isCompleted  |-> FALSE,
     matchedPairs |-> <<>>,
     version      |-> 0]

\* new this.gameModel({...}) of createGame.
newGame(sessionKey, shuffledCards, startTime) ==
    [sessionKey   |-> sessionKey,
     cards        |-> shuffledCards,
     moves        |-> <<>>,
     attempts     |-> 0,
     startTime    |-> startTime,
     endTime      |-> <<>>,
     isCompleted  |-> FALSE,
     matchedPairs |-> <<>>,
     version      |-> 0]

\* insert into a collection without the unique index.
insertNoIndex(coll, doc) ==
    [error |-> Pass, games |-> coll \cup {doc}]

\* save() of a new document: an insert, which the unique index on
\* sessionKey rejects when a document with the key is stored.
insert(coll, doc) ==
    IF \E g \in coll : g.sessionKey = doc.sessionKey
    THEN [error |-> ServerError("E11000 duplicate key error"), games |-> coll]
    ELSE [error |-> Pass, games |-> coll \cup {doc}]

\* save that adds the last move of the copy to the stored log.
saveAppends(coll, doc, versioned) ==
    [error |-> Pass,
     games |-> {IF g.sessionKey # doc.sessionKey THEN g
                ELSE [g EXCEPT !.moves = Append(@, Last(doc.moves)),
                               !.attempts = @ + 1,
                               !.cards = doc.cards,
                               !.matchedPairs = doc.matchedPairs,
                               !.version = @ + 1] : g \in coll}]

\* save() of a loaded document (lines 156-159).  makeMove marks the array
\* paths cards, moves and matchedPairs modified, so they are written whole,
\* beside the fields it assigned: attempts, and isCompleted and endTime
\* when the move completed the session.  version counts the writes to a
\* document, so a copy is stale when its version is not the stored one.
\* makeMove sets no condition on the write, and what the store client does
\* with a stale copy is not in the source: versioned tells whether it
\* refuses the write (a VersionError) or writes the paths over the stored
\* document.
save(coll, doc, versioned) ==
    LET stale == \A g \in coll :
                    g.sessionKey = doc.sessionKey => g.version # doc.version
    IN  IF stale /\ versioned
        THEN [error |-> ServerError("VersionError: No matching document found"),
              games |-> coll]
        ELSE [error |-> Pass,
              games |-> {IF g.sessionKey # doc.sessionKey THEN g
                         ELSE [g EXCEPT
                                 !.cards = doc.cards,
                                 !.moves = doc.moves,
                                 !.matchedPairs = doc.matchedPairs,
                                 !.attempts = doc.attempts,
                                 !.isCompleted = IF doc.isCompleted
                                                 THEN TRUE ELSE @,
                                 !.endTime = IF doc.isCompleted
                                             THEN doc.endTime ELSE @,
                                 !.version = @ + 1] : g \in coll}]

---------------------------------------------------------------------------
(* Responses.  A handler returns the collection it leaves, the exception   *)
(* it threw (or Pass), the number of queries it sent to the collection and *)
(* the value it returned (an optional).                                    *)

Response(coll, error, queries, body) ==
    [games |-> coll, error |-> error, queries |-> queries, body |-> body]

---------------------------------------------------------------------------
(* createGame.  uuid is the value uuidv4() returns if it is called.        *)

\* checkCreate without the query for an active session.
checkCreateNoQuery(coll, dtoSessionKey, uuid) ==
    LET sessionKey == IF Falsy(dtoSessionKey) THEN uuid ELSE dtoSessionKey
        checked == IF Falsy(dtoSessionKey) THEN Pass
                   ELSE validateSessionKey(dtoSessionKey)
    IN  IF checked.status # "ok" THEN Response(coll, checked, 0, <<>>)
        ELSE Response(coll, Pass, 0, <<sessionKey>>)

\* Lines 41-54: the key is chosen and validated and the store is asked for
\* an active session with the key.  The body of an ok response is the key.
checkCreate(coll, dtoSessionKey, uuid) ==
    LET sessionKey == IF Falsy(dtoSessionKey) THEN uuid ELSE dtoSessionKey
        checked == IF Falsy(dtoSessionKey) THEN Pass
                   ELSE validateSessionKey(dtoSessionKey)
        existingGame == findOne(coll, [sessionKey |-> sessionKey, isCompleted |-> FALSE])
    IN  IF checked.status # "ok" THEN Response(coll, checked, 0, <<>>)
        ELSE IF existingGame # <<>>
        THEN Response(coll,
                BadRequestException("Active game already exists for this session"),
                1, <<>>)
        ELSE Response(coll, Pass, 1, <<sessionKey>>)

\* Lines 56-77: the cards are shuffled, the document is built and saved, and
\* the saved document is returned.
finishCreate(coll, sessionKey, rnd, startTime) ==
    LET game == newGame(sessionKey, createShuffledCards(rnd), startTime)
        saved == insert(coll, game)
    IN  IF saved.error.status # "ok"
        THEN Response(coll, saved.error, 2, <<>>)
        ELSE Response(saved.games, Pass, 2,
                \* toObject() without _id, __v and cards
                <<[sessionKey   |-> game.sessionKey,
                   moves        |-> game.moves,
                   attempts     |-> game.attempts,
                   startTime    |-> game.startTime,
                   isCompleted  |-> game.isCompleted,
                   matchedPairs |-> game.matchedPairs]>>)

---------------------------------------------------------------------------
(* findGame.                                                               *)

\* findGame with the filter of createGame, which skips completed sessions.
findGameActiveOnly(coll, sessionKey) ==
    LET checked == validateSessionKey(sessionKey)
        game == findOne(coll, [sessionKey |-> sessionKey, isCompleted |-> FALSE])
    IN  IF checked.status # "ok" THEN Response(coll, checked, 0, <<>>)
        ELSE IF game = <<>>
        THEN Response(coll, NotFoundException("Game not found"), 1, <<>>)
        ELSE Response(coll, Pass, 1, game)

findGame(coll, sessionKey) ==
    LET checked == validateSessionKey(sessionKey)
        game == findOne(coll, [sessionKey |-> sessionKey])
    IN  IF checked.status # "ok" THEN Response(coll, checked, 0, <<>>)
        ELSE IF game = <<>>
        THEN Response(coll, NotFoundException("Game not found"), 1, <<>>)
        ELSE Response(coll, Pass, 1, game)

---------------------------------------------------------------------------
(* makeMove.  The handler awaits twice: findGame (the read) and save (the  *)
(* write).  resolveMove is the synchronous code between the two, run on    *)
(* the loaded document; timestamp and endTime are the values of the two    *)
(* `new Date()` it may evaluate.                                           *)

\* revealCards that turns the first card only.
revealCardsFirstOnly(cards, i1, i2) == [cards EXCEPT ![i1].isRevealed = TRUE]

\* card1.isRevealed = true; card2.isRevealed = true
revealCards(cards, i1, i2) ==
    [cards EXCEPT ![i1].isRevealed = TRUE, ![i2].isRevealed = TRUE]

\* matchCards that marks neither card.
matchCardsNeither(cards, i1, i2) == cards

\* matchCards that marks the second card only.
matchCardsSecondOnly(cards, i1, i2) == [cards EXCEPT ![i2].isMatched = TRUE]

\* matchCards that marks the first card only.
matchCardsFirstOnly(cards, i1, i2) == [cards EXCEPT ![i1].isMatched = TRUE]

\* card1.isMatched = true; card2.isMatched = true
matchCards(cards, i1, i2) ==
    [cards EXCEPT ![i1].isMatched = TRUE, ![i2].isMatched = TRUE]

\* allMatched with some() in place of every().
allMatchedSome(cards) == \E i \in DOMAIN cards : cards[i].isMatched

\* game.cards.every(card => card.isMatched)
allMatched(cards) == \A i \in DOMAIN cards : cards[i].isMatched

\* gameMove with the positions stored in the wrong order.
gameMoveReversed(positions, moveAnimals, isMatch, timestamp) ==
    [cards     |-> <<positions[2], positions[1]>>,
     animals   |-> moveAnimals,
     isMatch   |-> isMatch,
     timestamp |-> timestamp]

\* The GameMove record of a move.
gameMove(positions, moveAnimals, isMatch, timestamp) ==
    [cards     |-> positions,
     animals   |-> moveAnimals,
     isMatch   |-> isMatch,
     timestamp |-> timestamp]

\* applyMove that counts an attempt only for a move that matches.
applyMoveCountsMatches(game, positions, i1, i2, timestamp, endTime) ==
    LET isMatch  == game.cards[i1].animal = game.cards[i2].animal
        move     == gameMove(positions,
                        <<game.cards[i1].animal, game.cards[i2].animal>>,
                        isMatch, timestamp)
        revealed == revealCards(game.cards, i1, i2)
        cards    == IF isMatch THEN matchCards(revealed, i1, i2) ELSE revealed
        done     == isMatch /\ allMatched(cards)
    IN  [game EXCEPT
            !.cards        = cards,
            !.moves        = Append(@, move),
            !.attempts     = IF isMatch THEN @ + 1 ELSE @,
            !.matchedPairs = IF isMatch
                             THEN Append(@, <<positions[1], positions[2]>>)
                             ELSE @,
            !.isCompleted  = IF done THEN TRUE ELSE @,
            !.endTime      = IF done THEN <<endTime>> ELSE @]

\* The effect of a validated move on the loaded document.
applyMove(game, positions, i1, i2, timestamp, endTime) ==
    LET isMatch  == game.cards[i1].animal = game.cards[i2].animal
        move     == gameMove(positions,
                        <<game.cards[i1].animal, game.cards[i2].animal>>,
                        isMatch, timestamp)
        revealed == revealCards(game.cards, i1, i2)
        cards    == IF isMatch THEN matchCards(revealed, i1, i2) ELSE revealed
        done     == isMatch /\ allMatched(cards)
    IN  [game EXCEPT
            !.cards        = cards,
            !.moves        = Append(@, move),
            !.attempts     = @ + 1,
            !.matchedPairs = IF isMatch
                             THEN Append(@, <<positions[1], positions[2]>>)
                             ELSE @,
            !.isCompleted  = IF done THEN TRUE ELSE @,
            !.endTime      = IF done THEN <<endTime>> ELSE @]

\* The result object of a successful move.
\* moveResult that reports the completion flag the session had when loaded.
moveResultStale(game, positions, i1, i2, after) ==
    LET moveAnimals == <<game.cards[i1].animal, game.cards[i2].animal>>
        isMatch     == game.cards[i1].animal = game.cards[i2].animal
    IN  [isMatch          |-> isMatch,
         animals          |-> moveAnimals,
         gameCompleted    |-> game.isCompleted,
         message          |-> IF isMatch
                              THEN <<"Match found! ", moveAnimals[1], " pairs matched.">>
                              ELSE <<"No match. ", moveAnimals[1], " and ",
                                     moveAnimals[2], " don't match.">>,
         matchedPositions |-> IF isMatch
                              THEN <<<<positions[1], positions[2]>>>>
                              ELSE <<>>]

moveResult(game, positions, i1, i2, after) ==
    LET moveAnimals == <<game.cards[i1].animal, game.cards[i2].animal>>
        isMatch     == game.cards[i1].animal = game.cards[i2].animal
    IN  [isMatch          |-> isMatch,
         animals          |-> moveAnimals,
         gameCompleted    |-> after.isCompleted,
         message          |-> IF isMatch
                              THEN <<"Match found! ", moveAnimals[1], " pairs matched.">>
                              ELSE <<"No match. ", moveAnimals[1], " and ",
                                     moveAnimals[2], " don't match.">>,
         matchedPositions |-> IF isMatch
                              THEN <<<<positions[1], positions[2]>>>>
                              ELSE <<>>]

\* alreadyMatched that refuses a card turned face up before, too.
alreadyShown(card1, card2) ==
    \/ card1.isMatched \/ card2.isMatched
    \/ card1.isRevealed \/ card2.isRevealed

\* alreadyMatched with && in place of ||.
alreadyMatchedBoth(card1, card2) == card1.isMatched /\ card2.isMatched

\* card1.isMatched || card2.isMatched
alreadyMatched(card1, card2) == card1.isMatched \/ card2.isMatched

\* Lines 103-154: the exception thrown, or the modified document and the
\* result to return once it is saved.
resolveMove(game, positions, timestamp, endTime) ==
    LET checked == validateCardPositions(positions)
        card1 == find(game.cards, positions[1])
        card2 == find(game.cards, positions[2])
        i1    == IndexOf(game.cards, positions[1])
        i2    == IndexOf(game.cards, positions[2])
        after == applyMove(game, positions, i1, i2, timestamp, endTime)
    IN  IF game.isCompleted
        THEN [error |-> BadRequestException("Game is already completed"),
              game |-> game, body |-> <<>>]
        ELSE IF checked.status # "ok"
        THEN [error |-> checked, game |-> game, body |-> <<>>]
        ELSE IF card1 = <<>> \/ card2 = <<>>
        THEN [error |-> BadRequestException("Invalid card positions"),
              game |-> game, body |-> <<>>]
        ELSE IF alreadyMatched(card1[1], card2[1])
        THEN [error |-> BadRequestException("Cannot select already matched cards"),
              game |-> game, body |-> <<>>]
        ELSE [error |-> Pass, game |-> after,
              body |-> <<moveResult(game, positions, i1, i2, after)>>]

\* finishMove that saves the revealed cards before it checks the result.
finishMoveSavesFirst(coll, game, positions, timestamp, endTime, versioned) ==
    LET resolved == resolveMove(game, positions, timestamp, endTime)
        probed   == [game EXCEPT !.cards =
                        [i \in DOMAIN @ |->
                            IF @[i].position \in Range(positions)
                            THEN [@[i] EXCEPT !.isRevealed = TRUE] ELSE @[i]]]
        saved    == save(coll, IF resolved.error.status = "ok"
                               THEN resolved.game ELSE probed, versioned)
    IN  IF resolved.error.status # "ok"
        THEN Response(saved.games, resolved.error, 2, <<>>)
        ELSE Response(saved.games, Pass, 2, resolved.body)

\* The write and the return of makeMove, given the document it loaded.
finishMove(coll, game, positions, timestamp, endTime, versioned) ==
    LET resolved == resolveMove(game, positions, timestamp, endTime)
        saved    == save(coll, resolved.game, versioned)
    IN  IF resolved.error.status # "ok"
        THEN Response(coll, resolved.error, 1, <<>>)
        ELSE IF saved.error.status # "ok"
        THEN Response(coll, saved.error, 2, <<>>)
        ELSE Response(saved.games, Pass, 2, resolved.body)

\* makeMove of a call that no other call overlaps: nothing is saved
\* between its query and its save.
makeMove(coll, sessionKey, positions, timestamp, endTime) ==
    LET checked == validateSessionKey(sessionKey)
        found   == findGame(coll, sessionKey)
    IN  IF checked.status # "ok" THEN Response(coll, checked, 0, <<>>)
        ELSE IF found.error.status # "ok" THEN found
        ELSE finishMove(coll, found.body[1], positions, timestamp, endTime, TRUE)

---------------------------------------------------------------------------
(* getGameState.                                                           *)

\* getGameState that lists the matched cards only.
getGameStateMatchedOnly(coll, sessionKey) ==
    LET checked == validateSessionKey(sessionKey)
        found   == findGame(coll, sessionKey)
        game    == found.body[1]
        shown   == SelectSeq(game.cards, LAMBDA card : card.isMatched)
        revealedCards ==
            [i \in 1..Len(shown) |->
                [position |-> shown[i].position, animal |-> shown[i].animal]]
        remainingCards == Len(SelectSeq(game.cards, LAMBDA card : ~card.isMatched))
    IN  IF checked.status # "ok" THEN Response(coll, checked, 0, <<>>)
        ELSE IF found.error.status # "ok" THEN found
        ELSE Response(coll, Pass, 1,
                <<[sessionKey     |-> game.sessionKey,
                   attempts       |-> game.attempts,
                   matchedPairs   |-> game.matchedPairs,
                   isCompleted    |-> game.isCompleted,
                   startTime      |-> game.startTime,
                   endTime        |-> game.endTime,
                   revealedCards  |-> revealedCards,
                   remainingCards |-> remainingCards]>>)

\* Array.prototype.filter is SelectSeq.
getGameState(coll, sessionKey) ==
    LET checked == validateSessionKey(sessionKey)
        found   == findGame(coll, sessionKey)
        game    == found.body[1]
        shown   == SelectSeq(game.cards, LAMBDA card : card.isMatched \/ card.isRevealed)
        revealedCards ==
            [i \in 1..Len(shown) |->
                [position |-> shown[i].position, animal |-> shown[i].animal]]
        remainingCards == Len(SelectSeq(game.cards, LAMBDA card : ~card.isMatched))
    IN  IF checked.status # "ok" THEN Response(coll, checked, 0, <<>>)
        ELSE IF found.error.status # "ok" THEN found
        ELSE Response(coll, Pass, 1,
                <<[sessionKey     |-> game.sessionKey,
                   attempts       |-> game.attempts,
                   matchedPairs   |-> game.matchedPairs,
                   isCompleted    |-> game.isCompleted,
                   startTime      |-> game.startTime,
                   endTime        |-> game.endTime,
                   revealedCards  |-> revealedCards,
                   remainingCards |-> remainingCards]>>)

---------------------------------------------------------------------------
(* getGameHistory and validatePaginationParams.  The validators take     *)
(* numbers that need not be integers: a number is written <<n>> when it is *)
(* the integer n and <<n, d>> when it is n + d/10, d in 1..9.              *)

\* Number.isInteger
isInteger(x) == Len(x) = 1

\* x <= k, for an integer k
atMost(x, k) == x[1] < k \/ (x[1] = k /\ isInteger(x))

\* x > y
greaterThan(x, y) ==
    \/ x[1] > y[1]
    \/ /\ x[1] = y[1]
       /\ (IF isInteger(x) THEN 0 ELSE x[2]) > (IF isInteger(y) THEN 0 ELSE y[2])

validatePaginationParams(limit, page) ==
    IF atMost(limit, 0) \/ ~atMost(limit, 100)
    THEN BadRequestException("Limit must be between 1 and 100")
    ELSE IF atMost(page, 0)
    THEN BadRequestException("Page must be greater than 0")
    ELSE IF ~isInteger(limit) \/ ~isInteger(page)
    THEN BadRequestException("Limit and page must be integers")
    ELSE Pass

\* Math.ceil(a / b) for a >= 0, b > 0
Ceil(a, b) == (a + b - 1) \div b

\* Array.prototype.slice(start, end) with 0 <= start <= end
Slice(s, start, end) == SubSeq(s, start + 1, Min(end, Len(s)))

getGameHistory(coll, sessionKey, limit) ==
    LET page       == 1
        checked    == validateSessionKey(sessionKey)
        paging     == validatePaginationParams(<<limit>>, <<page>>)
        found      == findGame(coll, sessionKey)
        game       == found.body[1]
        startIndex == (page - 1) * limit
        endIndex   == startIndex + limit
        totalMoves == Len(game.moves)
        totalPages == Ceil(totalMoves, limit)
    IN  IF checked.status # "ok" THEN Response(coll, checked, 0, <<>>)
        ELSE IF paging.status # "ok" THEN Response(coll, paging, 0, <<>>)
        ELSE IF found.error.status # "ok" THEN found
        ELSE Response(coll, Pass, 1,
                <<[moves      |-> Slice(game.moves, startIndex, endIndex),
                   pagination |-> [page       |-> page,
                                   limit      |-> limit,
                                   total      |-> totalMoves,
                                   totalPages |-> totalPages,
                                   hasNext    |-> page < totalPages,
                                   hasPrev    |-> page > 1]]>>)

---------------------------------------------------------------------------
(* GamesController.getGameHistory and getLatestMoves.  Both pass a page as *)
(* third argument to GamesService.getGameHistory, which takes two: the     *)
(* argument is dropped.                                                    *)

controllerGetGameHistory(coll, sessionKey, limit, page) ==
    IF limit # 0 /\ (limit < 1 \/ limit > 50)
    THEN Response(coll, BadRequestException("Limit must be between 1 and 50"),
                  0, <<>>)
    ELSE IF page # 0 /\ page < 1
    THEN Response(coll, BadRequestException("Page must be greater than 0"),
                  0, <<>>)
    ELSE getGameHistory(coll, sessionKey, limit)

getLatestMoves(coll, sessionKey, count) ==
    IF count # 0 /\ (count < 1 \/ count > 20)
    THEN Response(coll, BadRequestException("Count must be between 1 and 20"),
                  0, <<>>)
    ELSE getGameHistory(coll, sessionKey, count)

---------------------------------------------------------------------------
(* The clients: the inputs they send.                                      *)

\* A key a client chooses for its session.
K1 == <<"k", "1">>

Digit(i) == <<"0", "1", "2", "3", "4", "5", "6", "7", "8", "9">>[i + 1]

\* The UUID 00000000-0000-4000-8000-00000000000i
Uuid(i) ==
    [n \in 1..36 |->
        IF n \in {9, 14, 19, 24} THEN "-"
        ELSE IF n = 15 THEN "4"
        ELSE IF n = 20 THEN "8"
        ELSE IF n = 36 THEN Digit(i)
        ELSE "0"]

\* The key uuidv4() generates.
Uuid1 == Uuid(1)

\* A key under which no session is ever created.
KNone == <<"n", "o">>

\* '' and a key of a space, a form feed and a no-break space.
BlankKeys == {<<>>, <<" ", "\f", "U+00A0">>}

\* The outcomes of Math.random() in one shuffle: no swap at all, and a
\* swap with the first element in every iteration.
RandomDraws ==
    {[i \in 1..15 |-> i], [i \in 1..15 |-> 0]}

\* What `new Date()` returns: the time the clock of the machine shows, in
\* milliseconds.  The clock is the wall clock, which may be set forward or
\* back between two readings, so a reading is bound by no reading before it.
Reading == Nat

\* The milliseconds the clock shows in the exploration; it shows 0 when the
\* service starts.
Clock == 0..1

\* The readings the exploration takes after the reading t where the clock
\* is followed closely: the same millisecond, which is what two readings
\* in a row mostly show, or the next one.
Successive(t) == {t, t + 1} \cap Clock

\* The readings the exploration takes after the reading t where the clock
\* may also have been set back: one tick earlier, the same millisecond, or
\* the next one.
Near(t) == ((t - 1)..(t + 1)) \cap Clock

A1 == validPositions[1]

A2 == validPositions[2]

C1 == validPositions[9]

E5 == <<"E", "5">>

A10 == <<"A", "1", "0">>

\* The card lists a client probes a session with: every pair over three
\* positions (one of them outside the grid), a pair that matches in one of
\* the deals, a malformed position, and lists that do not hold two
\* positions.
ProbeInputs ==
    {<<p, q>> : p \in {A1, A2, E5}, q \in {A1, A2, E5}}
        \cup {<<A1, C1>>, <<A1, A10>>, <<>>, <<A1>>, <<A1, C1, A2>>}

\* The card lists sent with a key that names no session.
NoSessionInputs == {<<A1, C1>>, <<A1, A1>>, <<A1, E5>>, <<A1>>}

\* The animals of a session's cards, in card order.
Deal(cards) == [i \in DOMAIN cards |-> cards[i].animal]

\* The deals the shuffle produces from RandomDraws.
Deals == {Deal(createShuffledCards(rnd)) : rnd \in RandomDraws}

\* The index of the other card with the animal of card i.
partner(deal, i) == CHOOSE j \in DOMAIN deal : j # i /\ deal[j] = deal[i]

\* The pairs of a deal, found from the last card backwards.
RECURSIVE pairsFrom(_, _, _)
pairsFrom(deal, i, done) ==
    IF i < 1 THEN <<>>
    ELSE IF i \in done THEN pairsFrom(deal, i - 1, done)
    ELSE <<<<i, partner(deal, i)>>>>
            \o pairsFrom(deal, i - 1, done \cup {i, partner(deal, i)})

\* The play of a client that remembers the deal: a miss, six pairs, a
\* miss, the last two pairs.
Script ==
    [deal \in Deals |->
        LET m == pairsFrom(deal, Len(deal), {})
            at(k, side) == validPositions[m[k][side]]
            hit(k) == <<at(k, 1), at(k, 2)>>
        IN  <<<<at(1, 1), at(2, 1)>>>>
                \o [k \in 1..6 |-> hit(k)]
                \o <<<<at(7, 2), at(8, 1)>>, hit(7), hit(8)>>]

\* The number of leading moves of a session that follow the script.
OnScript(game) ==
    LET script == Script[Deal(game.cards)]
        agree == {n \in 0..Min(Len(game.moves), Len(script)) :
                    \A i \in 1..n : game.moves[i].cards = script[i]}
    IN  CHOOSE n \in agree : \A k \in agree : k <= n

\* The moves made since the session left the script.
Explored(game) == Len(game.moves) - OnScript(game)

\* The card lists a client may send to a stored session.
MoveInputs(coll, sessionKey) ==
    LET game == findOne(coll, [sessionKey |-> sessionKey])
        script == Script[Deal(game[1].cards)]
        n == Len(game[1].moves)
    IN  IF game = <<>> THEN NoSessionInputs
        ELSE ProbeInputs \cup
             (IF n < Len(script) /\ OnScript(game[1]) = n
              THEN {script[n + 1]} ELSE {})

\* The moves a session has lost: the writes to it that its log does not
\* show.
LostMoves(game) == game.version - Len(game.moves)

\* The collection holds at most MaxSessions sessions, none of which has
\* left its script by more than MaxExplore moves.
WithinBounds(coll) ==
    /\ Cardinality(coll) <= MaxSessions
    /\ \A g \in coll : Explored(g) <= MaxExplore

\* What the exploration lets the store client do with a stale copy: refuse
\* it, or write it while no session has lost a move.
Versioning(coll) ==
    IF \E g \in coll : LostMoves(g) > 0 THEN {TRUE} ELSE BOOLEAN

\* The readings <<timestamp, endTime>> the exploration gives a move call
\* that has read its session, t being the reading before.  A call that
\* throws before line 133 reads no clock.  The call that completes its
\* copy of the session reads the clock twice, and between these two
\* readings the clock may have been set back.
MoveTicks(call, t) ==
    LET resolved == resolveMove(call.game, call.positions, t, t)
    IN  IF resolved.error.status # "ok" THEN {<<t, t>>}
        ELSE IF resolved.game.isCompleted
        THEN UNION {{<<u, e>> : e \in Near(u)} : u \in Successive(t)}
        ELSE {<<u, u>> : u \in Successive(t)}

---------------------------------------------------------------------------
(* The handlers as actions.  createGame and makeMove await twice, the      *)
(* query and the save, and give control back to the event loop each time:  *)
(* each is a step that validates the key and sends the query, and a step    *)
(* that runs the code after the query on what the query returned and saves. *)
(* calls holds the calls that have passed the first step and not the       *)
(* second.  findGame, getGameState and getGameHistory await their query     *)
(* only and are one step.  last holds the request answered by the step and  *)
(* its response.                                                            *)

Served(op, sessionKey, cards, limit, r) ==
    [op         |-> op,
     sessionKey |-> sessionKey,
     cards      |-> cards,
     limit      |-> limit,
     error      |-> r.error,
     queries    |-> r.queries,
     body       |-> r.body]

\* No request has been answered by the step.
NoneServed == Served("none", Undefined, <<>>, 0, Response({}, Pass, 0, <<>>))

Init ==
    /\ games = {}
    /\ now = 0
    /\ last = NoneServed
    /\ calls = {}

CreateCalls == {c \in calls : c.op = "createGame"}

MoveCalls == {c \in calls : c.op = "makeMove"}

\* The keys of the stored sessions and of the createGame calls about to
\* save.
KeysInUse == {g.sessionKey : g \in games} \cup {c.sessionKey : c \in CreateCalls}

\* Lines 41-54 of createGame: the key is chosen and validated and the store
\* is asked for an active session with the key.  A call that fails here is
\* answered at once.
BeginCreate(dtoSessionKey) ==
    LET checked == checkCreate(games, dtoSessionKey, Uuid1)
        id      == CHOOSE i \in 1..MaxInFlight : \A c \in calls : c.id # i
    IN  \* uuidv4() returns a key that is not in use
        /\ Falsy(dtoSessionKey) => Uuid1 \notin KeysInUse
        /\ IF checked.error.status # "ok"
           THEN /\ last' = Served("createGame", dtoSessionKey, <<>>, 0, checked)
                /\ UNCHANGED <<games, now, calls>>
           ELSE /\ Cardinality(calls) < MaxInFlight
                /\ Cardinality(KeysInUse \cup {checked.body[1]}) <= MaxSessions
                /\ calls' = calls \cup {[id            |-> id,
                                         op            |-> "createGame",
                                         sessionKey    |-> checked.body[1],
                                         dtoSessionKey |-> dtoSessionKey]}
                /\ last' = NoneServed
                /\ UNCHANGED <<games, now>>

\* Lines 56-77 of a createGame call that has passed its check: the cards are
\* shuffled, the document is built with startTime, the reading of the clock
\* (line 63), and saved.
FinishCreate(call, rnd, startTime) ==
    LET r == finishCreate(games, call.sessionKey, rnd, startTime)
    IN  /\ call.op = "createGame"
        /\ startTime \in Reading
        /\ games' = r.games
        /\ now' = startTime
        /\ last' = Served("createGame", call.dtoSessionKey, <<>>, 0, r)
        /\ calls' = calls \ {call}

FindGame(sessionKey) ==
    /\ last' = Served("findGame", sessionKey, <<>>, 0, findGame(games, sessionKey))
    /\ UNCHANGED <<games, now, calls>>

\* BeginMove that checks the card list before it reads the session.
BeginMoveValidatesFirst(sessionKey, positions) ==
    LET checked == validateSessionKey(sessionKey)
        cards   == validateCardPositions(positions)
        found   == findGame(games, sessionKey)
        failed  == IF checked.status # "ok"
                   THEN Response(games, checked, 0, <<>>)
                   ELSE IF cards.status # "ok"
                   THEN Response(games, cards, 0, <<>>)
                   ELSE found
        id      == CHOOSE i \in 1..MaxInFlight : \A c \in calls : c.id # i
    IN  IF failed.error.status # "ok"
        THEN /\ last' = Served("makeMove", sessionKey, positions, 0, failed)
             /\ UNCHANGED <<games, now, calls>>
        ELSE /\ Cardinality(calls) < MaxInFlight
             /\ calls' = calls \cup {[id         |-> id,
                                      op         |-> "makeMove",
                                      sessionKey |-> sessionKey,
                                      positions  |-> positions,
                                      game       |-> found.body[1]]}
             /\ last' = NoneServed
             /\ UNCHANGED <<games, now>>

\* Lines 99-101 of makeMove: the key is validated and the session is read.
\* A call that fails here is answered at once.
BeginMove(sessionKey, positions) ==
    LET checked == validateSessionKey(sessionKey)
        found   == findGame(games, sessionKey)
        failed  == IF checked.status # "ok"
                   THEN Response(games, checked, 0, <<>>) ELSE found
        id      == CHOOSE i \in 1..MaxInFlight : \A c \in calls : c.id # i
    IN  IF failed.error.status # "ok"
        THEN /\ last' = Served("makeMove", sessionKey, positions, 0, failed)
             /\ UNCHANGED <<games, now, calls>>
        ELSE /\ Cardinality(calls) < MaxInFlight
             /\ calls' = calls \cup {[id         |-> id,
                                      op         |-> "makeMove",
                                      sessionKey |-> sessionKey,
                                      positions  |-> positions,
                                      game       |-> found.body[1]]}
             /\ last' = NoneServed
             /\ UNCHANGED <<games, now>>

\* Lines 103-169 of a makeMove call that has read its session: the move is
\* resolved on the document read and the document is saved.  timestamp is
\* the reading of the clock for the move record (line 133), which is taken
\* when the checks of the cards have passed; endTime is the second reading
\* (line 152), taken when the move completes the session; versioned is
\* what the store client does when the copy is stale.
FinishMove(call, timestamp, endTime, versioned) ==
    LET resolved == resolveMove(call.game, call.positions, timestamp, endTime)
        r == finishMove(games, call.game, call.positions, timestamp, endTime,
                        versioned)
    IN  /\ call.op = "makeMove"
        /\ timestamp \in Reading
        /\ endTime \in Reading
        /\ games' = r.games
        /\ now' = IF resolved.error.status # "ok" THEN now
                  ELSE IF resolved.game.isCompleted THEN endTime
                  ELSE timestamp
        /\ last' = Served("makeMove", call.sessionKey, call.positions, 0, r)
        /\ calls' = calls \ {call}

GetGameState(sessionKey) ==
    /\ last' = Served("getGameState", sessionKey, <<>>, 0,
                      getGameState(games, sessionKey))
    /\ UNCHANGED <<games, now, calls>>

GetGameHistory(sessionKey, limit) ==
    /\ last' = Served("getGameHistory", sessionKey, <<>>, limit,
                      getGameHistory(games, sessionKey, limit))
    /\ UNCHANGED <<games, now, calls>>

\* The keys clients name in their requests.
RequestKeys == {K1, KNone} \cup BlankKeys

\* No stored session has lost a move, and makeMove, run on the stored
\* session, leaves the collection within the bounds.
MoveWithinBounds(sessionKey, positions) ==
    /\ \A g \in games : LostMoves(g) = 0
    /\ WithinBounds(makeMove(games, sessionKey, positions, now, now).games)

\* The save of the createGame call can add a session to the collection:
\* the call passes its check and no session is stored under its key.
\* Whether it does is decided when the save is run, by what the calls with
\* the same key have saved by then.
MayAddSession(dtoSessionKey) ==
    LET checked == checkCreate(games, dtoSessionKey, Uuid1)
    IN  /\ checked.error.status = "ok"
        /\ checked.body[1] \notin {g.sessionKey : g \in games}

\* A createGame call that can add a session is made before the first move.
CreateWithinBounds(dtoSessionKey) ==
    MayAddSession(dtoSessionKey) => \A g \in games : g.moves = <<>>

\* The calls of clients that do not wait for each other, with the clock
\* reading anywhere near its reading before.
Next ==
    \/ \E k \in {Undefined, K1} \cup BlankKeys :
            CreateWithinBounds(k) /\ BeginCreate(k)
    \/ \E call \in CreateCalls : \E rnd \in RandomDraws, t \in Near(now) :
            FinishCreate(call, rnd, t)
    \/ \E k \in RequestKeys : FindGame(k)
    \/ \E k \in RequestKeys : \E ps \in MoveInputs(games, k) :
            MoveWithinBounds(k, ps) /\ BeginMove(k, ps)
    \/ \E call \in MoveCalls : \E t \in Near(now) : \E e \in Near(t) :
            \E versioned \in Versioning(games) : FinishMove(call, t, e, versioned)
    \/ \E k \in RequestKeys : GetGameState(k)
    \/ \E k \in RequestKeys, limit \in {0, 2} : GetGameHistory(k, limit)

Spec == Init /\ [][Next]_vars

---------------------------------------------------------------------------
(* A client that waits for the answer to a call before it makes the next   *)
(* and plays one session.  Every step is a step of Next: no call is made   *)
(* while one is in flight, a session is added to an empty collection only, *)
(* and the readings of the clock are those of Successive and MoveTicks.    *)

NextAwaited ==
    \/ /\ calls = {}
       /\ \E k \in {Undefined, K1} \cup BlankKeys :
            (MayAddSession(k) => games = {}) /\ BeginCreate(k)
    \/ \E call \in CreateCalls :
            \E rnd \in RandomDraws, t \in Successive(now) :
                FinishCreate(call, rnd, t)
    \/ calls = {} /\ \E k \in RequestKeys : FindGame(k)
    \/ /\ calls = {}
       /\ \E k \in RequestKeys : \E ps \in MoveInputs(games, k) :
            MoveWithinBounds(k, ps) /\ BeginMove(k, ps)
    \/ \E call \in MoveCalls : \E t \in MoveTicks(call, now) :
            \E versioned \in Versioning(games) : FinishMove(call, t[1], t[2], versioned)
    \/ calls = {} /\ \E k \in RequestKeys : GetGameState(k)
    \/ calls = {} /\ \E k \in RequestKeys, limit \in {0, 2} : GetGameHistory(k, limit)

SpecAwaited == Init /\ [][NextAwaited]_vars

---------------------------------------------------------------------------
(* makeMove calls in flight together on one session: each runs the code    *)
(* between its two awaits on the document its query returned.  The calls   *)
(* in flight together have read the session before any of them saves.      *)

\* The card lists of the requests in flight together: the next move of the
\* script and a pair of neighbours.
ConcInputs(coll, sessionKey) ==
    LET game == findOne(coll, [sessionKey |-> sessionKey])
        script == Script[Deal(game[1].cards)]
        n == Len(game[1].moves)
    IN  IF game = <<>> THEN {<<A1, C1>>}
        ELSE {<<A1, A2>>} \cup
             (IF n < Len(script) /\ OnScript(game[1]) = n
              THEN {script[n + 1]} ELSE {})

NextConc ==
    \/ /\ calls = {}
       /\ BeginCreate(K1)
    \/ \E call \in CreateCalls :
            \E rnd \in RandomDraws, t \in Successive(now) :
                FinishCreate(call, rnd, t)
    \/ /\ CreateCalls = {}
       /\ \A c \in MoveCalls : c.game \in games
       /\ \E ps \in ConcInputs(games, K1) :
            MoveWithinBounds(K1, ps) /\ BeginMove(K1, ps)
    \/ \E call \in MoveCalls : \E t \in MoveTicks(call, now) :
            \E versioned \in Versioning(games) : FinishMove(call, t[1], t[2], versioned)

SpecConc == Init /\ [][NextConc]_vars

---------------------------------------------------------------------------
(* createGame calls in flight together, beside a client that plays the     *)
(* session of K1 one move at a time.                                       *)

NextCreate ==
    \/ \E k \in {Undefined, K1} : CreateWithinBounds(k) /\ BeginCreate(k)
    \/ \E call \in CreateCalls :
            \E rnd \in RandomDraws, t \in Successive(now) :
                FinishCreate(call, rnd, t)
    \/ /\ MoveCalls = {}
       /\ \A g \in games : Explored(g) <= 0
       /\ \E ps \in ConcInputs(games, K1) :
            MoveWithinBounds(K1, ps) /\ BeginMove(K1, ps)
    \/ \E call \in MoveCalls : \E t \in MoveTicks(call, now) :
            \E versioned \in Versioning(games) : FinishMove(call, t[1], t[2], versioned)

SpecCreate == Init /\ [][NextCreate]_vars

---------------------------------------------------------------------------
(* The shuffle over more of its outcomes.  One session is dealt from a     *)
(* draw of ShuffleDraws and probed with a few moves.                        *)

\* The draws of Math.random() in one shuffle: any draw in the first
\* MaxFreeDraws iterations (i = 15, 14, ...), and after them one of the
\* patterns of RandomDraws.
ShuffleDraws ==
    LET free == (15 - MaxFreeDraws + 1)..15
    IN  {[i \in 1..15 |-> IF i \in free THEN first[i] ELSE rest[i]] :
            first \in {f \in [free -> 0..15] : \A i \in free : f[i] <= i},
            rest \in RandomDraws}

NextShuffle ==
    \/ games = {} /\ calls = {} /\ BeginCreate(K1)
    \/ \E call \in CreateCalls :
            \E rnd \in ShuffleDraws, t \in Successive(now) :
                FinishCreate(call, rnd, t)
    \/ /\ calls = {}
       /\ \A g \in games : g.attempts <= MaxExplore
       /\ \E ps \in {<<A1, A2>>, <<A1, C1>>} : BeginMove(K1, ps)
    \/ \E call \in MoveCalls : \E t \in MoveTicks(call, now) :
            \E versioned \in Versioning(games) : FinishMove(call, t[1], t[2], versioned)

SpecShuffle == Init /\ [][NextShuffle]_vars

---------------------------------------------------------------------------
(* The history of one session as it is played, asked for page by page.     *)

ServedPage(op, sessionKey, limit, page, r) ==
    [op         |-> op,
     sessionKey |-> sessionKey,
     limit      |-> limit,
     page       |-> page,
     error      |-> r.error,
     queries    |-> r.queries,
     body       |-> r.body]

HistoryLimits == {0, 1, 2, 51}

HistoryPages == {-1, 0, 1, 2, 3}

LatestCounts == {0, 1, 2, 21}

GetGameHistoryPage(sessionKey, limit, page) ==
    /\ last' = ServedPage("getGameHistoryPage", sessionKey, limit, page,
                          controllerGetGameHistory(games, sessionKey, limit, page))
    /\ UNCHANGED <<games, now, calls>>

GetLatestMoves(sessionKey, count) ==
    /\ last' = ServedPage("getLatestMoves", sessionKey, count, 1,
                          getLatestMoves(games, sessionKey, count))
    /\ UNCHANGED <<games, now, calls>>

NextHistory ==
    \/ games = {} /\ calls = {} /\ BeginCreate(K1)
    \/ \E call \in CreateCalls :
            \E rnd \in RandomDraws, t \in Successive(now) :
                FinishCreate(call, rnd, t)
    \/ /\ calls = {}
       /\ \A g \in games : Explored(g) <= 0
       /\ \E ps \in ConcInputs(games, K1) :
            MoveWithinBounds(K1, ps) /\ BeginMove(K1, ps)
    \/ \E call \in MoveCalls : \E t \in MoveTicks(call, now) :
            \E versioned \in Versioning(games) : FinishMove(call, t[1], t[2], versioned)
    \/ /\ calls = {}
       /\ \E k \in {K1, KNone}, limit \in HistoryLimits, page \in HistoryPages :
            GetGameHistoryPage(k, limit, page)
    \/ calls = {} /\ \E k \in {K1, KNone}, count \in LatestCounts : GetLatestMoves(k, count)

SpecHistory == Init /\ [][NextHistory]_vars

---------------------------------------------------------------------------
(* LeaderboardService.calculateScore.  completionTime is in milliseconds   *)
(* and completionTime / 1000 is not rounded, so the time score is kept in   *)
(* thousandths.                                                             *)

Max(a, b) == IF a >= b THEN a ELSE b

\* Math.round of a number given in thousandths: the nearest integer, a half
\* rounded up.
roundMilli(x) == (x + 500) \div 1000

\* calculateScore whose time score grows again past 1000 seconds.
calculateScoreAbsTime(attempts, completionTime) ==
    LET attemptsScore == Max(0, 1000 - (attempts * 10))
        timeScoreMilli == Max(completionTime - 1000000, 1000000 - completionTime)
    IN  roundMilli((attemptsScore * 1000 + timeScoreMilli) \div 2)

calculateScore(attempts, completionTime) ==
    LET attemptsScore == Max(0, 1000 - (attempts * 10))
        timeScoreMilli == Max(0, 1000000 - completionTime)
    IN  roundMilli((attemptsScore * 1000 + timeScoreMilli) \div 2)

\* A score calculated, with its arguments.
Scored(attempts, completionTime) ==
    [op             |-> "calculateScore",
     attempts       |-> attempts,
     completionTime |-> completionTime,
     score          |-> calculateScore(attempts, completionTime)]

InitScore ==
    /\ games = {}
    /\ now = 0
    /\ calls = {}
    /\ last = Scored(0, 0)

\* The score of a session with one more attempt.
MoreAttempts ==
    /\ last.attempts < MaxAttempts
    /\ last' = Scored(last.attempts + 1, last.completionTime)
    /\ UNCHANGED <<games, now, calls>>

\* The score of a session that took longer by delay milliseconds.
MoreTime(delay) ==
    /\ last.completionTime + delay <= MaxSeconds * 1000
    /\ last' = Scored(last.attempts, last.completionTime + delay)
    /\ UNCHANGED <<games, now, calls>>

NextScore ==
    \/ MoreAttempts
    \/ \E delay \in {500, 1000} : MoreTime(delay)

SpecScore == InitScore /\ [][NextScore]_vars

---------------------------------------------------------------------------
(* LeaderboardService.getTopGames.  A stored session is given by the       *)
(* fields the leaderboard reads: sessionKey, attempts, startTime, endTime   *)
(* and isCompleted.  Times are in milliseconds.  limit, page and the bounds *)
(* of a filter are numbers that need not be integers.                       *)

\* validateLeaderboardPaginationParams without the Number.isInteger tests.
validateLeaderboardPaginationParamsAnyNumber(limit, page) ==
    IF atMost(limit, 0)
    THEN BadRequestException("Limit must be a positive integer")
    ELSE IF ~atMost(limit, 100)
    THEN BadRequestException("Limit cannot exceed 100")
    ELSE IF atMost(page, 0)
    THEN BadRequestException("Page must be a positive integer")
    ELSE Pass

validateLeaderboardPaginationParams(limit, page) ==
    IF ~isInteger(limit) \/ atMost(limit, 0)
    THEN BadRequestException("Limit must be a positive integer")
    ELSE IF ~atMost(limit, 100)
    THEN BadRequestException("Limit cannot exceed 100")
    ELSE IF ~isInteger(page) \/ atMost(page, 0)
    THEN BadRequestException("Page must be a positive integer")
    ELSE Pass

\* A LeaderboardFilter; an absent bound is <<>>.
LeaderboardFilter(minAttempts, maxAttempts, minCompletionTime, maxCompletionTime) ==
    [minAttempts       |-> minAttempts,
     maxAttempts       |-> maxAttempts,
     minCompletionTime |-> minCompletionTime,
     maxCompletionTime |-> maxCompletionTime]

\* No filter, or a filter without bounds.
NoFilter == LeaderboardFilter(<<>>, <<>>, <<>>, <<>>)

validateFilterParams(filter) ==
    IF /\ filter.minAttempts # <<>>
       /\ (~isInteger(filter.minAttempts) \/ filter.minAttempts[1] < 0)
    THEN BadRequestException("minAttempts must be a non-negative integer")
    ELSE IF /\ filter.maxAttempts # <<>>
            /\ (~isInteger(filter.maxAttempts) \/ filter.maxAttempts[1] < 0)
    THEN BadRequestException("maxAttempts must be a non-negative integer")
    ELSE IF /\ filter.minAttempts # <<>>
            /\ filter.maxAttempts # <<>>
            /\ greaterThan(filter.minAttempts, filter.maxAttempts)
    THEN BadRequestException("minAttempts cannot be greater than maxAttempts")
    ELSE IF filter.minCompletionTime # <<>> /\ filter.minCompletionTime[1] < 0
    THEN BadRequestException("minCompletionTime must be non-negative")
    ELSE IF filter.maxCompletionTime # <<>> /\ filter.maxCompletionTime[1] < 0
    THEN BadRequestException("maxCompletionTime must be non-negative")
    ELSE IF /\ filter.minCompletionTime # <<>>
            /\ filter.maxCompletionTime # <<>>
            /\ greaterThan(filter.minCompletionTime, filter.maxCompletionTime)
    THEN BadRequestException("minCompletionTime cannot be greater than maxCompletionTime")
    ELSE Pass

\* The query { isCompleted: true, attempts: { $gte, $lte } }.
filterQuery(game, filter) ==
    /\ game.isCompleted
    /\ filter.minAttempts # <<>> => game.attempts >= filter.minAttempts[1]
    /\ filter.maxAttempts # <<>> => game.attempts <= filter.maxAttempts[1]

\* The place of an endTime in an ascending sort: a missing value comes
\* before every date.
endTimeKey(game) == IF game.endTime = <<>> THEN -1 ELSE game.endTime[1]

\* sort({ attempts: 1 })
sortedByAttempts(found) ==
    \A i, j \in 1..Len(found) : i < j => found[i].attempts <= found[j].attempts

\* sort({ attempts: 1, endTime: 1 })
sortedByAttemptsEndTime(found) ==
    \A i, j \in 1..Len(found) :
        i < j =>
            \/ found[i].attempts < found[j].attempts
            \/ /\ found[i].attempts = found[j].attempts
               /\ endTimeKey(found[i]) <= endTimeKey(found[j])

\* The lists of the elements of a set, in every order.
RECURSIVE orderings(_)
orderings(set) ==
    IF set = {} THEN {<<>>}
    ELSE UNION {{<<g>> \o rest : rest \in orderings(set \ {g})} : g \in set}

\* The lists find(filterQuery).sort(...) may produce before skip and limit:
\* the matching sessions in sorted order, sessions that are equal in the
\* sort fields in any order.
findSorted(coll, filter) ==
    {found \in orderings({g \in coll : filterQuery(g, filter)}) :
        sortedByAttemptsEndTime(found)}

\* games.filter(game => ...) on the completion time, a whole number of
\* milliseconds compared with bounds that need not be whole.
withinCompletionTime(game, filter) ==
    LET completionTime == game.endTime[1] - game.startTime
    IN  /\ filter.minCompletionTime # <<>> =>
               ~greaterThan(filter.minCompletionTime, <<completionTime>>)
        /\ filter.maxCompletionTime # <<>> =>
               ~greaterThan(<<completionTime>>, filter.maxCompletionTime)

LeaderboardEntry(game) ==
    LET completionTime == game.endTime[1] - game.startTime
    IN  [sessionKey     |-> game.sessionKey,
         attempts       |-> game.attempts,
         completionTime |-> completionTime,
         startTime      |-> game.startTime,
         endTime        |-> game.endTime[1],
         score          |-> calculateScore(game.attempts, completionTime)]

\* page > totalPages && totalPages > 0
pageExceeds(page, totalPages) == page > totalPages /\ totalPages > 0

\* `Page ${page} exceeds total pages (${totalPages})`
pageExceedsMessage(page, totalPages) ==
    <<"Page ", page, " exceeds total pages (", totalPages, ")">>

\* The first query of Promise.all, find(filterQuery).select(...)
\* .sort({ attempts: 1, endTime: 1 }).skip(skip).limit(limit).exec(): found
\* is the list the sorted query produces before skip and limit.
findPage(found, skip, limit) ==
    IF skip >= Len(found) THEN <<>> ELSE Slice(found, skip, skip + limit)

\* The second query of Promise.all, countDocuments(filterQuery).
countDocuments(coll, filter) ==
    Cardinality({g \in coll : filterQuery(g, filter)})

\* getTopGames, given what its two queries returned: completedGames is the
\* answer to find and total the answer to countDocuments.  The queries are
\* sent together and awaited together, and the store runs them one after
\* the other, so they need not read the same store.  Neither is sent when
\* the validation throws.
getTopGames(coll, limit, page, filter, completedGames, total) ==
    LET paging         == validateLeaderboardPaginationParams(limit, page)
        filtering      == validateFilterParams(filter)
        filteredGames  ==
            IF filter.minCompletionTime # <<>> \/ filter.maxCompletionTime # <<>>
            THEN SelectSeq(completedGames,
                           LAMBDA game : withinCompletionTime(game, filter))
            ELSE completedGames
        totalPages     == Ceil(total, limit[1])
        data           == [i \in 1..Len(filteredGames) |->
                              LeaderboardEntry(filteredGames[i])]
    IN  IF paging.status # "ok" THEN Response(coll, paging, 0, <<>>)
        ELSE IF filtering.status # "ok" THEN Response(coll, filtering, 0, <<>>)
        ELSE IF pageExceeds(page[1], totalPages)
        THEN Response(coll,
                 BadRequestException(pageExceedsMessage(page[1], totalPages)),
                 2, <<>>)
        ELSE Response(coll, Pass, 2,
                      <<[data       |-> data,
                         pagination |-> [page       |-> page[1],
                                         limit      |-> limit[1],
                                         total      |-> total,
                                         totalPages |-> totalPages,
                                         hasNext    |-> page[1] < totalPages,
                                         hasPrev    |-> page[1] > 1]]>>)

---------------------------------------------------------------------------
(* LeaderboardService.getPlayerStats.  An absent (null) statistic is <<>>.  *)
(* averageAttempts, a number of two decimals, is given in hundredths.  The  *)
(* code divides and rounds doubles.  A sum of attempts or of milliseconds   *)
(* and a count are integers a double holds exactly, and their quotient is   *)
(* the double nearest to sum / count.  Where sum / count (or 100 times it)  *)
(* is not halfway between two integers it is further from halfway than a    *)
(* double is from the quotient, so Math.round gives the integer nearest to  *)
(* sum / count.  Halfway, sum / count is a multiple of 1/2, or 100 times it *)
(* is and sum / count is a multiple of 1/8 when fewer than 40 sessions are  *)
(* counted: a double holds these and their products by 100 exactly, and     *)
(* Math.round rounds the half up.  sessionKey being unique, find returns at *)
(* most one session.                                                        *)

hexDigits ==
    {"0", "1", "2", "3", "4", "5", "6", "7", "8", "9",
     "a", "b", "c", "d", "e", "f", "A", "B", "C", "D", "E", "F"}

\* /^[0-9a-f]{8}-[0-9a-f]{4}-[0-9a-f]{4}-[0-9a-f]{4}-[0-9a-f]{12}$/i
uuidRegex(sessionKey) ==
    /\ Len(sessionKey) = 36
    /\ \A n \in 1..36 :
           IF n \in {9, 14, 19, 24} THEN sessionKey[n] = "-"
           ELSE sessionKey[n] \in hexDigits

validateLeaderboardSessionKey(sessionKey) ==
    IF Falsy(sessionKey)
    THEN BadRequestException("Session key must be a non-empty string")
    ELSE IF Len(trim(sessionKey)) = 0
    THEN BadRequestException("Session key cannot be empty or whitespace")
    ELSE IF ~uuidRegex(sessionKey)
    THEN BadRequestException("Invalid session key format")
    ELSE Pass

\* Math.round(a / b) for b > 0: the integer nearest to a / b, a half rounded
\* up, also below 0.
roundDiv(a, b) == (2 * a + b) \div (2 * b)

\* reduce((sum, g) => sum + g.attempts, 0)
RECURSIVE sumAttempts(_)
sumAttempts(sessions) ==
    IF sessions = {} THEN 0
    ELSE LET g == CHOOSE g \in sessions : TRUE
         IN  g.attempts + sumAttempts(sessions \ {g})

\* reduce((sum, g) => sum + (g.endTime.getTime() - g.startTime.getTime()), 0)
RECURSIVE sumCompletionTime(_)
sumCompletionTime(sessions) ==
    IF sessions = {} THEN 0
    ELSE LET g == CHOOSE g \in sessions : TRUE
         IN  (g.endTime[1] - g.startTime) + sumCompletionTime(sessions \ {g})

\* Math.min(...numbers) of a non-empty set
minOf(numbers) == CHOOSE n \in numbers : \A m \in numbers : n <= m

\* The completed sessions among those found.
completedOf(found) == {g \in found : g.isCompleted}

PlayerStats(found) ==
    LET completedGames  == completedOf(found)
        totalGames      == Cardinality(found)
        completedCount  == Cardinality(completedGames)
        \* averageAttempts is total / completedCount and
        \* averageCompletionTime is totalTime / completedCount; a quotient of
        \* 0 is falsy and gives null.
        total           == sumAttempts(completedGames)
        totalTime       == sumCompletionTime(completedGames)
    IN  [totalGames            |-> totalGames,
         completedGames        |-> completedCount,
         bestAttempts          |->
             IF completedCount > 0
             THEN <<minOf({g.attempts : g \in completedGames})>> ELSE <<>>,
         averageAttempts       |->
             IF completedCount > 0 /\ total # 0
             THEN <<roundDiv(total * 100, completedCount)>> ELSE <<>>,
         bestCompletionTime    |->
             IF completedCount > 0
             THEN <<minOf({g.endTime[1] - g.startTime : g \in completedGames})>>
             ELSE <<>>,
         averageCompletionTime |->
             IF completedCount > 0 /\ totalTime # 0
             THEN <<roundDiv(totalTime, completedCount)>> ELSE <<>>,
         successRate           |->
             IF totalGames > 0 THEN roundDiv(completedCount * 100, totalGames)
             ELSE 0]

getPlayerStats(coll, sessionKey) ==
    LET checked == validateLeaderboardSessionKey(sessionKey)
        found   == {g \in coll : g.sessionKey = sessionKey}
    IN  IF checked.status # "ok" THEN Response(coll, checked, 0, <<>>)
        ELSE Response(coll, Pass, 1, <<PlayerStats(found)>>)

\* { attempts: { $lt: attempts } } or { attempts, endTime: { $lt: endTime } }
betterScore(game, playerGame) ==
    \/ game.attempts < playerGame.attempts
    \/ /\ game.attempts = playerGame.attempts
       /\ game.endTime # <<>>
       /\ game.endTime[1] < playerGame.endTime[1]

\* Model.findOne(filter).sort({ attempts: 1, endTime: 1 }): of the documents
\* whose fields equal those of the filter the first in that order, or null
\* (<<>>).
findOneSorted(coll, filter) ==
    LET hits  == {g \in coll : \A f \in DOMAIN filter : g[f] = filter[f]}
        first == {g \in hits : \A h \in hits : sortedByAttemptsEndTime(<<g, h>>)}
    IN  IF hits = {} THEN <<>> ELSE <<CHOOSE g \in first : TRUE>>

\* The second query: the completed sessions with a better score than
\* playerGame.
countBetterScore(coll, playerGame) ==
    Cardinality({g \in coll : g.isCompleted /\ betterScore(g, playerGame)})

\* The third query: countDocuments({ isCompleted: true }).
countCompleted(coll) == Cardinality({g \in coll : g.isCompleted})

\* getPlayerRank, given what its three queries returned, each awaited
\* before the next is sent: playerGame is the answer to findOne (<<>> for
\* null), after which the other two are sent only when it is a session.
getPlayerRank(coll, sessionKey, playerGame, playersWithBetterScore, totalPlayers) ==
    LET checked == validateLeaderboardSessionKey(sessionKey)
    IN  IF checked.status # "ok" THEN Response(coll, checked, 0, <<>>)
        ELSE IF playerGame = <<>>
        THEN Response(coll,
                 BadRequestException("Player has no completed games"), 1, <<>>)
        ELSE Response(coll, Pass, 3,
                 <<[rank         |-> playersWithBetterScore + 1,
                    totalPlayers |-> totalPlayers]>>)

---------------------------------------------------------------------------
(* The leaderboard over a store of sessions played earlier.                *)

\* The key of the i-th session stored: the second is the key a client
\* chose, the others were generated.
BoardKey(i) == IF i = 2 THEN K1 ELSE Uuid(i)

\* The keys of the first n sessions stored.
BoardKeys(n) == {BoardKey(i) : i \in 1..n}

\* A session is completed by no less than one move for each pair.
BoardAttempts == {Len(animals), Len(animals) + 1}

\* The start and the end of a completed session, both readings of the
\* clock: the end is the millisecond of the start, a later one, or an
\* earlier one when the clock was set back while the session was played.
BoardTimes == {<<0, 0>>, <<0, 1>>, <<1, 0>>}

\* What a session in the store may be, its key aside: completed, or still
\* being played with one pair left to match.
BoardSessions ==
    {[attempts |-> a, startTime |-> t[1], endTime |-> <<t[2]>>,
      isCompleted |-> TRUE] : a \in BoardAttempts, t \in BoardTimes}
    \cup {[attempts |-> Len(animals) - 1, startTime |-> 0,
           endTime |-> <<>>, isCompleted |-> FALSE]}

StoredSession(sessionKey, session) ==
    [sessionKey  |-> sessionKey,
     attempts    |-> session.attempts,
     startTime   |-> session.startTime,
     endTime     |-> session.endTime,
     isCompleted |-> session.isCompleted]

\* The stores: sessionKey is unique.
BoardStores ==
    UNION {{{StoredSession(k, f[k]) : k \in keys} : f \in [keys -> BoardSessions]} :
           keys \in {BoardKeys(n) : n \in 0..MaxStored}}

\* 0, 1, 2, 101 and 1.5
LimitInputs == {<<0>>, <<1>>, <<2>>, <<101>>, <<1, 5>>}

\* 0, 1, 2 and 1.5
PageInputs == {<<0>>, <<1>>, <<2>>, <<1, 5>>}

\* Filters that pass validateFilterParams; the bounds of the completion
\* time are 0, 0.5 and 1 millisecond.
GoodFilters ==
    {NoFilter,
     LeaderboardFilter(<<Len(animals) + 1>>, <<>>, <<>>, <<>>),
     LeaderboardFilter(<<>>, <<Len(animals)>>, <<>>, <<>>),
     LeaderboardFilter(<<Len(animals)>>, <<Len(animals) + 1>>, <<>>, <<>>),
     LeaderboardFilter(<<>>, <<>>, <<0, 5>>, <<>>),
     LeaderboardFilter(<<>>, <<>>, <<>>, <<0>>),
     LeaderboardFilter(<<>>, <<>>, <<0, 5>>, <<1>>)}

\* Filters with a bound out of order, by a millisecond or by half of
\* one, below 0 or, for the attempts, not an integer.
BadFilters ==
    {LeaderboardFilter(<<Len(animals) + 1>>, <<Len(animals)>>, <<>>, <<>>),
     LeaderboardFilter(<<>>, <<>>, <<2>>, <<1>>),
     LeaderboardFilter(<<>>, <<>>, <<1, 5>>, <<1>>),
     LeaderboardFilter(<<-1>>, <<>>, <<>>, <<>>),
     LeaderboardFilter(<<>>, <<-1>>, <<>>, <<>>),
     LeaderboardFilter(<<>>, <<>>, <<-1>>, <<>>),
     LeaderboardFilter(<<>>, <<>>, <<>>, <<-1>>),
     LeaderboardFilter(<<Len(animals), 5>>, <<>>, <<>>, <<>>),
     LeaderboardFilter(<<>>, <<Len(animals), 5>>, <<>>, <<>>)}

FilterInputs == GoodFilters \cup BadFilters

\* The requests of a client: with a limit of 1 or 2 any page and filter,
\* with another limit the first or a malformed page and no filter or a
\* malformed one.
BoardRequests ==
    {r \in LimitInputs \X PageInputs \X FilterInputs :
        \/ r[1] \in {<<1>>, <<2>>}
        \/ /\ r[2] \in {<<1>>, <<1, 5>>}
           /\ r[3] \in {NoFilter, LeaderboardFilter(<<-1>>, <<>>, <<>>, <<>>)}}

Asked(op, limit, page, filter, r) ==
    [op      |-> op,
     limit   |-> limit,
     page    |-> page,
     filter  |-> filter,
     error   |-> r.error,
     queries |-> r.queries,
     body    |-> r.body]

\* No request has been answered by the step.
NoneAsked == Asked("none", <<0>>, <<0>>, NoFilter, Response({}, Pass, 0, <<>>))

InitBoard ==
    /\ games \in BoardStores
    /\ now = 0
    /\ calls = {}
    /\ last = NoneAsked

TopGamesCalls == {c \in calls : c.op = "getTopGames"}

RankCalls == {c \in calls : c.op = "getPlayerRank"}

\* The query of getTopGames the store runs first.
QueryOrders == {"find", "countDocuments"}

\* Lines 59-77 of getTopGames: the request is validated and both queries
\* are sent; the store runs the query first and answers it.  found is what
\* the sorted query produces before skip and limit.  A call that fails its
\* validation is answered at once.
BeginTopGames(limit, page, filter, first, found) ==
    LET failed == getTopGames(games, limit, page, filter, <<>>, 0)
        skip   == (page[1] - 1) * limit[1]
    IN  IF \/ validateLeaderboardPaginationParams(limit, page).status # "ok"
           \/ validateFilterParams(filter).status # "ok"
        THEN /\ last' = Asked("getTopGames", limit, page, filter, failed)
             /\ UNCHANGED <<games, now, calls>>
        ELSE /\ calls = {}
             /\ calls' = {[op             |-> "getTopGames",
                           limit          |-> limit,
                           page           |-> page,
                           filter         |-> filter,
                           answered       |-> first,
                           completedGames |->
                               IF first = "find"
                               THEN findPage(found, skip, limit[1]) ELSE <<>>,
                           total          |->
                               IF first = "countDocuments"
                               THEN countDocuments(games, filter) ELSE 0]}
             /\ last' = NoneAsked
             /\ UNCHANGED <<games, now>>

\* Lines 68-122 of a getTopGames call: the store runs the other query, the
\* await of line 68 ends and the call returns.
FinishTopGames(call, found) ==
    LET skip           == (call.page[1] - 1) * call.limit[1]
        completedGames == IF call.answered = "find" THEN call.completedGames
                          ELSE findPage(found, skip, call.limit[1])
        total          == IF call.answered = "countDocuments" THEN call.total
                          ELSE countDocuments(games, call.filter)
    IN  /\ call.op = "getTopGames"
        /\ last' = Asked("getTopGames", call.limit, call.page, call.filter,
                         getTopGames(games, call.limit, call.page, call.filter,
                                     completedGames, total))
        /\ calls' = calls \ {call}
        /\ UNCHANGED <<games, now>>

AskedKey(op, sessionKey, r) ==
    [op         |-> op,
     sessionKey |-> sessionKey,
     error      |-> r.error,
     queries    |-> r.queries,
     body       |-> r.body]

GetPlayerStats(sessionKey) ==
    /\ last' = AskedKey("getPlayerStats", sessionKey,
                        getPlayerStats(games, sessionKey))
    /\ UNCHANGED <<games, now, calls>>

\* Lines 157-166 of getPlayerRank: the key is validated and the session of
\* the player is read.  A call that fails here is answered at once.
BeginPlayerRank(sessionKey) ==
    LET checked    == validateLeaderboardSessionKey(sessionKey)
        playerGame == findOneSorted(games, [sessionKey  |-> sessionKey,
                                            isCompleted |-> TRUE])
    IN  IF checked.status # "ok" \/ playerGame = <<>>
        THEN /\ last' = AskedKey("getPlayerRank", sessionKey,
                             getPlayerRank(games, sessionKey,
                                 IF checked.status # "ok" THEN <<>>
                                 ELSE playerGame, 0, 0))
             /\ UNCHANGED <<games, now, calls>>
        ELSE /\ calls = {}
             /\ calls' = {[op                     |-> "getPlayerRank",
                           sessionKey             |-> sessionKey,
                           playerGame             |-> playerGame,
                           answered               |-> 1,
                           playersWithBetterScore |-> 0]}
             /\ last' = NoneAsked
             /\ UNCHANGED <<games, now>>

\* Lines 168-177 of a getPlayerRank call that has read its session: the
\* better sessions are counted.
CountBetterScore(call) ==
    /\ call.op = "getPlayerRank"
    /\ call.answered = 1
    /\ calls' = (calls \ {call}) \cup
                    {[call EXCEPT !.answered = 2,
                                  !.playersWithBetterScore =
                                      countBetterScore(games, call.playerGame[1])]}
    /\ UNCHANGED <<games, now, last>>

\* Lines 179-184 of a getPlayerRank call: the completed sessions are
\* counted and the call returns.
FinishPlayerRank(call) ==
    /\ call.op = "getPlayerRank"
    /\ call.answered = 2
    /\ last' = AskedKey("getPlayerRank", call.sessionKey,
                        getPlayerRank(games, call.sessionKey, call.playerGame,
                                      call.playersWithBetterScore,
                                      countCompleted(games)))
    /\ calls' = calls \ {call}
    /\ UNCHANGED <<games, now>>

\* The save of a makeMove call of GamesService that matches the last pair
\* of a session (lines 129-159 of makeMove), in the fields the leaderboard
\* reads: the move is counted, and the session is completed at endTime, a
\* reading of the clock.
SaveCompletes(sessionKey, endTime) ==
    /\ endTime \in Reading
    /\ \E g \in games :
           /\ g.sessionKey = sessionKey
           /\ ~g.isCompleted
           /\ games' = (games \ {g}) \cup
                           {[g EXCEPT !.attempts = @ + 1,
                                      !.isCompleted = TRUE,
                                      !.endTime = <<endTime>>]}
    /\ now' = endTime
    /\ UNCHANGED <<calls, last>>

\* The keys clients ask about: those of the store, a generated key and a
\* chosen key without a session, and blank keys.
BoardKeysAsked ==
    BoardKeys(MaxStored) \cup {Uuid(0), KNone, Undefined} \cup BlankKeys

\* A client asks for a leaderboard and then turns its pages; the sorted
\* query is run for the requests that pass validation.
TurnPages ==
    \E filter \in FilterInputs :
        /\ last.op = "getTopGames" => filter = last.filter
        /\ LET sorted == findSorted(games, filter)
           IN  \E limit \in LimitInputs, page \in PageInputs :
                   /\ <<limit, page, filter>> \in BoardRequests
                   /\ last.op = "getTopGames" => limit = last.limit
                   /\ IF /\ validateLeaderboardPaginationParams(limit, page).status = "ok"
                         /\ validateFilterParams(filter).status = "ok"
                      THEN \/ \E found \in sorted :
                                 BeginTopGames(limit, page, filter, "find", found)
                           \/ BeginTopGames(limit, page, filter,
                                            "countDocuments", <<>>)
                      ELSE BeginTopGames(limit, page, filter, "find", <<>>)

\* One client reads the leaderboard, another asks for the statistics and
\* the rank of players, each waiting for its answer before it asks again;
\* while a call waits for its queries, clients of GamesService complete
\* sessions.  A session completed while no call waits is a session of the
\* store the call starts in.
NextBoard ==
    \/ calls = {} /\ last.op \in {"none", "getTopGames"} /\ TurnPages
    \/ \E call \in TopGamesCalls :
           \E found \in IF call.answered = "find" THEN {<<>>}
                         ELSE findSorted(games, call.filter) :
               FinishTopGames(call, found)
    \/ /\ calls = {} /\ last.op # "getTopGames"
       /\ \E sessionKey \in BoardKeysAsked : GetPlayerStats(sessionKey)
    \/ /\ calls = {} /\ last.op # "getTopGames"
       /\ \E sessionKey \in BoardKeysAsked : BeginPlayerRank(sessionKey)
    \/ \E call \in RankCalls : CountBetterScore(call)
    \/ \E call \in RankCalls : FinishPlayerRank(call)
    \/ /\ calls # {}
       /\ \E sessionKey \in BoardKeys(MaxStored), endTime \in Clock :
              SaveCompletes(sessionKey, endTime)

SpecBoard == InitBoard /\ [][NextBoard]_vars

---------------------------------------------------------------------------
(* Vocabulary of the properties.                                           *)

\* The session stored under a key, as an optional.
Session(coll, sessionKey) == findOne(coll, [sessionKey |-> sessionKey])

\* A key that is empty or holds white space only.
Blank(sessionKey) ==
    sessionKey # Undefined /\ \A i \in DOMAIN sessionKey : IsWhitespace(sessionKey[i])

\* One of the 16 coordinates A1..D4.
InGrid(position) == \E i \in DOMAIN validPositions : validPositions[i] = position

\* The card of a session at a grid position.
CardAt(game, position) ==
    game.cards[CHOOSE i \in DOMAIN game.cards : game.cards[i].position = position]

\* The number of matching moves in a session's log.
Matches(game) == Cardinality({i \in DOMAIN game.moves : game.moves[i].isMatch})

\* The step serves a makeMove request.
MoveServed == last'.op = "makeMove"

\* The session the request served by the step names, before and after it.
Before == Session(games, last'.sessionKey)

After == Session(games', last'.sessionKey)

\* The request served by the step names a stored, non-completed session and
\* two distinct grid positions whose cards are unmatched.
PlayableMove ==
    /\ MoveServed
    /\ Before # <<>>
    /\ ~Before[1].isCompleted
    /\ Len(last'.cards) = 2
    /\ last'.cards[1] # last'.cards[2]
    /\ \A i \in 1..2 : /\ InGrid(last'.cards[i])
                       /\ ~CardAt(Before[1], last'.cards[i]).isMatched

\* C1: a makeMove on a non-completed session with two distinct valid
\* positions of unmatched cards succeeds, raises attempts by exactly one and
\* appends exactly one record to the move log: the two positions in the
\* order submitted, the two cards' animals in that order, and isMatch equal
\* to whether the animals are equal.
C1_MoveAppendsOneRecord ==
    [][PlayableMove =>
        LET ps == last'.cards
            a1 == CardAt(Before[1], ps[1]).animal
            a2 == CardAt(Before[1], ps[2]).animal
        IN  /\ last'.error.status = "ok"
            /\ After[1].attempts = Before[1].attempts + 1
            /\ Len(After[1].moves) = Len(Before[1].moves) + 1
            /\ Front(After[1].moves) = Before[1].moves
            /\ Last(After[1].moves).cards = ps
            /\ Last(After[1].moves).animals = <<a1, a2>>
            /\ Last(After[1].moves).isMatch = (a1 = a2)]_vars

\* A miss was served on a session that already had moves in its log.
C1_Witness ==
    /\ last.op = "makeMove"
    /\ last.error.status = "ok"
    /\ ~last.body[1].isMatch
    /\ \E g \in games : g.sessionKey = last.sessionKey /\ g.attempts >= 3

\* C2: a successful makeMove reports isMatch exactly when the two selected
\* cards carry the same animal; on a match both cards become matched and
\* the pair is appended to matchedPairs; on a miss no matched flag changes,
\* matchedPairs is unchanged and the session is not completed.
C2_MatchIffSameAnimal ==
    [][MoveServed /\ last'.error.status = "ok" =>
        LET ps == last'.cards
            isMatch == last'.body[1].isMatch
        IN  /\ isMatch = (CardAt(Before[1], ps[1]).animal
                            = CardAt(Before[1], ps[2]).animal)
            /\ isMatch =>
                /\ CardAt(After[1], ps[1]).isMatched
                /\ CardAt(After[1], ps[2]).isMatched
                /\ After[1].matchedPairs
                        = Append(Before[1].matchedPairs, <<ps[1], ps[2]>>)
            /\ ~isMatch =>
                /\ \A i \in DOMAIN After[1].cards :
                        After[1].cards[i].isMatched = Before[1].cards[i].isMatched
                /\ After[1].matchedPairs = Before[1].matchedPairs
                /\ ~After[1].isCompleted]_vars

\* A match was served on a session that had a pair matched and a miss in
\* its log.
C2_Witness ==
    /\ last.op = "makeMove"
    /\ last.error.status = "ok"
    /\ last.body[1].isMatch
    /\ \E g \in games : /\ g.sessionKey = last.sessionKey
                        /\ Len(g.matchedPairs) >= 2
                        /\ g.attempts > Len(g.matchedPairs)

\* C3: a session is completed, and its endTime set, exactly when 8
\* matching moves have succeeded on it, however many misses its log holds.
C3_CompletedAtEighthMatch ==
    \A g \in games :
        /\ Matches(g) <= 8
        /\ g.isCompleted = (Matches(g) = 8)
        /\ (g.endTime # <<>>) = (Matches(g) = 8)

\* A session was completed by its 8th match after misses.
C3_Witness ==
    /\ last.op = "makeMove"
    /\ last.error.status = "ok"
    /\ last.body[1].gameCompleted
    /\ \E g \in games : g.isCompleted /\ g.endTime # <<>> /\ g.attempts >= 10

\* C4: a makeMove that fails leaves the collection as it was and saves
\* nothing.
C4_FailedMoveChangesNothing ==
    [][MoveServed /\ last'.error.status # "ok" =>
        /\ games' = games
        /\ last'.queries <= 1]_vars

\* A move on a matched card was refused on a session with moves.
C4_Witness ==
    /\ last.op = "makeMove"
    /\ last.error = BadRequestException("Cannot select already matched cards")
    /\ \E g \in games : g.sessionKey = last.sessionKey /\ g.attempts >= 2

\* C5: makeMove on a completed session fails with BadRequest, whatever the
\* card list, and leaves the session as it was.
C5_CompletedRefusesMoves ==
    [][MoveServed /\ Before # <<>> /\ Before[1].isCompleted =>
        /\ last'.error.status = "BadRequest"
        /\ games' = games]_vars

\* A move with two distinct grid positions was refused on a completed
\* session.
C5_Witness ==
    /\ last.op = "makeMove"
    /\ last.error.status = "BadRequest"
    /\ Len(last.cards) = 2
    /\ last.cards[1] # last.cards[2]
    /\ \A i \in 1..2 : InGrid(last.cards[i])
    /\ \E g \in games : g.sessionKey = last.sessionKey /\ g.isCompleted

\* C7: makeMove with two equal positions fails and changes nothing, in
\* every state of the session.
C7_SameCardTwiceFails ==
    [][MoveServed /\ Len(last'.cards) = 2 /\ last'.cards[1] = last'.cards[2] =>
        /\ last'.error.status # "ok"
        /\ games' = games]_vars

\* The same unmatched card twice was refused on a session with a matched
\* pair.
C7_Witness ==
    /\ last.op = "makeMove"
    /\ last.error.status = "BadRequest"
    /\ Len(last.cards) = 2
    /\ last.cards[1] = last.cards[2]
    /\ InGrid(last.cards[1])
    /\ \E g \in games : /\ g.sessionKey = last.sessionKey
                        /\ Len(g.matchedPairs) >= 1
                        /\ ~g.isCompleted
                        /\ ~CardAt(g, last.cards[1]).isMatched

\* C8: a makeMove whose pair includes the position of a matched card fails
\* with BadRequest, whatever the other position; so does the makeMove that
\* repeats the pair of the match served just before it.
C8_MatchedCardRefused ==
    [][/\ (/\ MoveServed
           /\ Before # <<>>
           /\ Len(last'.cards) = 2
           /\ \E i \in 1..2 : /\ InGrid(last'.cards[i])
                              /\ CardAt(Before[1], last'.cards[i]).isMatched)
            => last'.error.status = "BadRequest" /\ games' = games
       /\ (/\ MoveServed
           /\ last.op = "makeMove"
           /\ last.error.status = "ok"
           /\ last.body[1].isMatch
           /\ last'.sessionKey = last.sessionKey
           /\ last'.cards = last.cards)
            => last'.error.status = "BadRequest" /\ games' = games]_vars

\* The pair matched by the last move of the log was sent again and
\* refused.
C8_Witness ==
    /\ last.op = "makeMove"
    /\ last.error = BadRequestException("Cannot select already matched cards")
    /\ \E g \in games : /\ g.sessionKey = last.sessionKey
                        /\ ~g.isCompleted
                        /\ g.moves # <<>>
                        /\ Last(g.moves).isMatch
                        /\ Last(g.moves).cards = last.cards

\* The card list of the request served by the step is not two positions of
\* the grid.
BadCardList ==
    \/ Len(last'.cards) # 2
    \/ \E i \in DOMAIN last'.cards : ~InGrid(last'.cards[i])

\* The statement of C9 as written: makeMove with a card list that is not
\* two positions of the grid fails with BadRequest, whatever the session
\* key.
C9_BadCardListIsBadRequest ==
    [][MoveServed /\ BadCardList => last'.error.status = "BadRequest"]_vars

\* C9, amended: makeMove with a card list that is not two positions of the
\* grid fails with BadRequest and changes nothing when the session key is
\* blank or names a stored session; with a non-blank key that names no
\* session it fails with NotFound.
C9_BadCardListOnStoredSession ==
    [][MoveServed /\ BadCardList =>
        /\ games' = games
        /\ last'.error.status =
              IF Blank(last'.sessionKey) \/ Before # <<>>
              THEN "BadRequest" ELSE "NotFound"]_vars

\* A list of three positions was refused on a stored session that is not
\* completed.
C9_Witness ==
    /\ last.op = "makeMove"
    /\ last.error = BadRequestException("Must select exactly 2 cards")
    /\ Len(last.cards) = 3
    /\ \E g \in games : g.sessionKey = last.sessionKey /\ ~g.isCompleted

\* The operations that look the session up by the key of the request.
Lookups == {"findGame", "makeMove", "getGameState", "getGameHistory"}

\* The step serves a lookup with a non-blank key that names no session.
UnknownKeyServed ==
    /\ last'.op \in Lookups
    /\ ~Blank(last'.sessionKey)
    /\ Before = <<>>

\* The statement of C10 as written: each of the four lookups fails with
\* NotFound for a non-blank key that names no session, and with BadRequest,
\* without a query, for a blank key.
C10_UnknownKeyIsNotFound ==
    [][/\ UnknownKeyServed => last'.error.status = "NotFound"
       /\ (last'.op \in Lookups /\ Blank(last'.sessionKey))
            => last'.error.status = "BadRequest" /\ last'.queries = 0]_vars

\* C10, amended: for a non-blank key that names no session, findGame,
\* makeMove (whatever the card list) and getGameState fail with NotFound,
\* and getGameHistory fails with NotFound when its limit is valid and with
\* BadRequest, without a query, when it is not; for a blank key each of the
\* four fails with BadRequest without a query.
C10_UnknownKeyUnlessBadLimit ==
    [][/\ UnknownKeyServed =>
            IF /\ last'.op = "getGameHistory"
               /\ validatePaginationParams(<<last'.limit>>, <<1>>).status # "ok"
            THEN last'.error.status = "BadRequest" /\ last'.queries = 0
            ELSE last'.error.status = "NotFound"
       /\ (last'.op \in Lookups /\ Blank(last'.sessionKey))
            => last'.error.status = "BadRequest" /\ last'.queries = 0]_vars

\* makeMove was refused with NotFound for an unknown key and a card list
\* that holds a position outside the grid, while a session is stored.
C10_Witness ==
    /\ last.op = "makeMove"
    /\ last.error = NotFoundException("Game not found")
    /\ ~Blank(last.sessionKey)
    /\ \E i \in DOMAIN last.cards : ~InGrid(last.cards[i])
    /\ games # {}

C11_OneActiveSessionPerKey ==
    \A g, h \in games :
        (g.sessionKey = h.sessionKey /\ ~g.isCompleted /\ ~h.isCompleted) => g = h

\* A createGame call that had passed the existence check was refused at its
\* save, because a call with the same key had saved in between.
C11_Witness ==
    /\ last.op = "createGame"
    /\ last.error.status = "ServerError"
    /\ \E g \in games : g.sessionKey = last.sessionKey /\ ~g.isCompleted

\* The step serves a createGame request.
CreateServed == last'.op = "createGame"

\* C12: createGame with a key under which a non-completed session is stored
\* fails with BadRequest, stores no session and leaves the stored session
\* as it was.
C12_ActiveKeyRefused ==
    [][(CreateServed /\ Before # <<>> /\ ~Before[1].isCompleted) =>
        /\ last'.error.status = "BadRequest"
        /\ games' = games]_vars

\* createGame was refused for the key of a stored session that has moves
\* and a matched pair and is not completed.
C12_Witness ==
    /\ last.op = "createGame"
    /\ last.error = BadRequestException("Active game already exists for this session")
    /\ \E g \in games : /\ g.sessionKey = last.sessionKey
                        /\ ~g.isCompleted
                        /\ g.attempts >= 2
                        /\ g.matchedPairs # <<>>

\* The step serves a createGame request that succeeds.
CreateSucceeds == CreateServed /\ last'.error.status = "ok"

\* C13: a successful createGame stores one session, under the requested key
\* or, when no key is given, under a key no stored session has; its
\* attempts is 0, its moves and matchedPairs are empty, it is not completed,
\* its endTime is unset, and its 16 cards are all unmatched and unrevealed.
C13_CreatedSessionIsFresh ==
    [][CreateSucceeds =>
        \E g \in games' :
            /\ games' = games \cup {g}
            /\ \A h \in games : h.sessionKey # g.sessionKey
            /\ ~Falsy(last'.sessionKey) => g.sessionKey = last'.sessionKey
            /\ g.attempts = 0
            /\ g.moves = <<>>
            /\ g.matchedPairs = <<>>
            /\ ~g.isCompleted
            /\ g.endTime = <<>>
            /\ Len(g.cards) = 16
            /\ \A i \in 1..16 : ~g.cards[i].isMatched /\ ~g.cards[i].isRevealed]_vars

\* createGame was served with the empty string as key and stored a session
\* under the generated key.
C13_Witness ==
    /\ last.op = "createGame"
    /\ last.error.status = "ok"
    /\ last.sessionKey = <<>>
    /\ \E g \in games : g.sessionKey = Uuid1 /\ g.sessionKey = last.body[1].sessionKey

\* C14, as stated: the value a successful createGame returns holds the
\* session key, attempts 0, empty moves, empty matchedPairs, isCompleted
\* false and a cards list of length 16.
C14_ReturnHoldsCards ==
    [][CreateSucceeds =>
        LET body == last'.body[1]
        IN  /\ \E g \in games' \ games : body.sessionKey = g.sessionKey
            /\ body.attempts = 0
            /\ body.moves = <<>>
            /\ body.matchedPairs = <<>>
            /\ ~body.isCompleted
            /\ "cards" \in DOMAIN body
            /\ Len(body.cards) = 16]_vars

\* The cards of a session are 16, lie at the coordinates A1..D4 in the
\* fixed order, and carry each of the 8 animals exactly twice.
FullDeck(game) ==
    /\ Len(game.cards) = 16
    /\ \A i \in 1..16 : game.cards[i].position = validPositions[i]
    /\ \A a \in Range(animals) :
            Cardinality({i \in 1..16 : game.cards[i].animal = a}) = 2
    /\ \A i \in 1..16 : game.cards[i].animal \in Range(animals)

\* C15: every stored session has 16 cards at the coordinates A1..D4 in the
\* fixed order, with each of the 8 animals on exactly two cards, whatever
\* the shuffle drew, and no step changes the animal or the position of a
\* card of a stored session.
C15_DeckIsEightPairs ==
    [][/\ \A g \in games' : FullDeck(g)
       /\ \A g \in games, h \in games' :
            g.sessionKey = h.sessionKey =>
                \A i \in 1..16 : /\ h.cards[i].animal = g.cards[i].animal
                                 /\ h.cards[i].position = g.cards[i].position]_vars

\* A session dealt by a shuffle that moved the last card has had two
\* moves.
C15_Witness ==
    /\ last.op = "makeMove"
    /\ last.error.status = "ok"
    /\ \E g \in games : /\ g.attempts = 2
                        /\ Deal(g.cards) \notin Deals
                        /\ g.cards[16].animal # animals[8]

\* s is a prefix of t.
IsPrefix(s, t) == Len(s) <= Len(t) /\ \A i \in 1..Len(s) : t[i] = s[i]

StaleCallSucceeds(c) ==
    /\ c \in MoveCalls
    /\ c \notin calls'
    /\ Session(games, c.sessionKey) # <<c.game>>
    /\ last'.op = "makeMove"
    /\ last'.error.status = "ok"

---------------------------------------------------------------------------
(* Scores.                                                                  *)

ScoreCalculated == last.op = "calculateScore"

WholeSeconds == ScoreCalculated /\ last.completionTime % 1000 = 0

\* round((max(0, 1000 - 10*attempts) + max(0, 1000 - seconds)) / 2), a half
\* rounded up.
AverageOfComponents(attempts, seconds) ==
    (Max(0, 1000 - 10 * attempts) + Max(0, 1000 - seconds) + 1) \div 2

ScoreIs(attempts, completionTime, score) ==
    (last.attempts = attempts /\ last.completionTime = completionTime)
        => last.score = score

ScoreFollowsFormula ==
    /\ WholeSeconds =>
           last.score = AverageOfComponents(last.attempts,
                                            last.completionTime \div 1000)
    /\ ScoreCalculated => last.score \in 0..1000
    /\ ScoreCalculated =>
           /\ ScoreIs(0, 0, 1000)
           /\ ScoreIs(5, 120000, 915)
           /\ ScoreIs(8, 300000, 810)
           /\ ScoreIs(12, 480000, 700)
           /\ ScoreIs(10, 120000, 890)

\* C18: for whole seconds the score is the rounded average of the
\* attempts component and the time component, it lies in 0..1000, the score
\* of (0, 0) is 1000, the listed examples hold, and the score of 100
\* attempts in 600000 ms is 0.
C18_ScoreOfHundredAttemptsTenMinutesIsZero ==
    /\ ScoreFollowsFormula
    /\ ScoreCalculated => ScoreIs(100, 600000, 0)

\* The arguments of the next score are those of this one with one of
\* them raised.
ArgumentRaised ==
    /\ ScoreCalculated /\ ScoreCalculated'
    /\ last'.attempts >= last.attempts
    /\ last'.completionTime >= last.completionTime

\* C19: the score does not rise when the attempts or the completion time
\* rise, by a whole second, half a second or a single millisecond, also
\* where a component reaches 0 and where a half is rounded.
C19_ScoreIsNonIncreasing ==
    [][ArgumentRaised =>
           /\ last'.score <= last.score
           /\ \A delay \in {1, 499, 501, 999} :
                  calculateScore(last.attempts,
                                 last.completionTime + delay) <= last.score]_vars

\* Both components are 0, after a step across the point where the time
\* component reached 0.
C19_Witness ==
    /\ ScoreCalculated
    /\ last.attempts > 100
    /\ last.completionTime > 1000000
    /\ last.score = 0
    /\ calculateScore(100, 999000) = 1
    /\ calculateScore(99, 1000000) = 5

---------------------------------------------------------------------------
(* The leaderboard.                                                         *)

\* getTopGames returned a leaderboard.
TopGamesServed == last.op = "getTopGames" /\ last.error.status = "ok"

\* C20: every entry of a leaderboard is a completed session of the store,
\* and the entries are in ascending order of attempts and, for equal
\* attempts, of endTime, whatever the store and the filter.
C20_EntriesCompletedAndSorted ==
    TopGamesServed =>
        LET data == last.body[1].data
        IN  /\ \A i \in 1..Len(data) :
                   \E g \in games : /\ g.sessionKey = data[i].sessionKey
                                    /\ g.isCompleted
            /\ \A i, j \in 1..Len(data) :
                   i < j =>
                       \/ data[i].attempts < data[j].attempts
                       \/ /\ data[i].attempts = data[j].attempts
                          /\ data[i].endTime <= data[j].endTime

\* A filtered leaderboard of two sessions with the same attempts that ended
\* at different times, over a store that holds an uncompleted session too.
C20_Witness ==
    /\ TopGamesServed
    /\ last.filter # NoFilter
    /\ \E g \in games : ~g.isCompleted
    /\ Len(last.body[1].data) = 2
    /\ last.body[1].data[1].attempts = last.body[1].data[2].attempts
    /\ last.body[1].data[1].endTime < last.body[1].data[2].endTime

\* getTopGames was called with arguments that pass its validation.
TopGamesAsked ==
    /\ last.op = "getTopGames"
    /\ validateLeaderboardPaginationParams(last.limit, last.page).status = "ok"
    /\ validateFilterParams(last.filter).status = "ok"

\* Ten times a number n or n + d/10.
Tenths(x) == 10 * x[1] + (IF Len(x) = 2 THEN x[2] ELSE 0)

\* The completed sessions within the attempt bounds of the filter.
WithinAttempts ==
    {g \in games :
        /\ g.isCompleted
        /\ last.filter.minAttempts # <<>> =>
               g.attempts >= last.filter.minAttempts[1]
        /\ last.filter.maxAttempts # <<>> =>
               g.attempts <= last.filter.maxAttempts[1]}

\* The completed sessions within all bounds of the filter.
WithinFilter ==
    {g \in WithinAttempts :
        /\ last.filter.minCompletionTime # <<>> =>
               10 * (g.endTime[1] - g.startTime)
                   >= Tenths(last.filter.minCompletionTime)
        /\ last.filter.maxCompletionTime # <<>> =>
               10 * (g.endTime[1] - g.startTime)
                   <= Tenths(last.filter.maxCompletionTime)}

\* C21: a page beyond ceil(matching completed sessions / limit)
\* is answered with an invalid-input error, also when no session matches
\* and there are zero pages.
C21_PageBeyondRangeIsRejected ==
    (TopGamesAsked /\ last.page[1] > Ceil(Cardinality(WithinFilter), last.limit[1]))
        => (last.error.status = "BadRequest" /\ last.body = <<>>)

\* The lists of the sessions of a set in ascending order of attempts and,
\* for equal attempts, of endTime.
ReferenceLists(sessions) ==
    {ref \in [1..Cardinality(sessions) -> sessions] :
        /\ \A i, j \in 1..Cardinality(sessions) : i # j => ref[i] # ref[j]
        /\ \A i, j \in 1..Cardinality(sessions) :
               i < j =>
                   \/ ref[i].attempts < ref[j].attempts
                   \/ /\ ref[i].attempts = ref[j].attempts
                      /\ ref[i].endTime[1] <= ref[j].endTime[1]}

\* The entries at indices [(page-1)*limit, page*limit) of a list.
PageOf(ref, page, limit) ==
    [i \in 1..Max(0, Min(Len(ref), page * limit) - (page - 1) * limit) |->
        ref[(page - 1) * limit + i]]

\* C22: the data of a leaderboard is the page of a reference list, the
\* completed sessions within all bounds of the filter in ascending order of
\* (attempts, endTime), and total and totalPages are the length of that
\* list and ceil(length / limit).
C22_DataIsPageOfFilteredSortedList ==
    TopGamesServed =>
        LET data == last.body[1].data
            paging == last.body[1].pagination
        IN  /\ paging.total = Cardinality(WithinFilter)
            /\ paging.totalPages = Ceil(Cardinality(WithinFilter), last.limit[1])
            /\ \E ref \in ReferenceLists(WithinFilter) :
                   LET slice == PageOf(ref, last.page[1], last.limit[1])
                   IN  /\ Len(data) = Len(slice)
                       /\ \A i \in 1..Len(data) :
                              data[i].sessionKey = slice[i].sessionKey

\* C23: every entry of a leaderboard has the key, attempts, startTime and
\* endTime of a stored session, a completionTime of endTime minus
\* startTime, which is not negative, and the score calculateScore gives for
\* the attempts and that completionTime.
C23_EntryCarriesSessionAndScore ==
    TopGamesServed =>
        \A i \in 1..Len(last.body[1].data) :
            LET entry == last.body[1].data[i]
            IN  /\ \E g \in games :
                       /\ g.sessionKey = entry.sessionKey
                       /\ g.attempts = entry.attempts
                       /\ g.startTime = entry.startTime
                       /\ g.endTime = <<entry.endTime>>
                /\ entry.completionTime = entry.endTime - entry.startTime
                /\ entry.completionTime >= 0
                /\ entry.score = calculateScore(entry.attempts,
                                                entry.endTime - entry.startTime)

---------------------------------------------------------------------------
(* The state and the history of a session.                                 *)

\* The indices of the cards of a session that are matched or revealed.
Shown(game) ==
    {i \in DOMAIN game.cards :
        game.cards[i].isMatched \/ game.cards[i].isRevealed}

\* The k-th of a set of indices, in ascending order.
Nth(indices, k) ==
    CHOOSE i \in indices : Cardinality({j \in indices : j < i}) = k - 1

\* C24: getGameState of a stored session answers with the session's
\* attempts, matchedPairs, isCompleted, startTime and endTime, with the
\* position and animal of the matched or revealed cards, and of no other
\* card, in card order, and with the number of unmatched cards, which is 0
\* for a completed session; the store is left as it was.
C24_StateShowsSessionAndOpenCards ==
    [][last'.op = "getGameState" =>
           \A game \in games :
               game.sessionKey = last'.sessionKey =>
                   LET state == last'.body[1]
                       shown == Shown(game)
                       card  == [k \in 1..Cardinality(shown) |->
                                    game.cards[Nth(shown, k)]]
                   IN  /\ last'.error.status = "ok"
                       /\ games' = games
                       /\ state.attempts = game.attempts
                       /\ state.matchedPairs = game.matchedPairs
                       /\ state.isCompleted = game.isCompleted
                       /\ state.startTime = game.startTime
                       /\ state.endTime = game.endTime
                       /\ Len(state.revealedCards) = Cardinality(shown)
                       /\ \A k \in 1..Len(state.revealedCards) :
                              state.revealedCards[k] =
                                  [position |-> card[k].position,
                                   animal   |-> card[k].animal]
                       /\ state.remainingCards =
                              Cardinality({i \in DOMAIN game.cards :
                                              ~game.cards[i].isMatched})
                       /\ game.isCompleted => state.remainingCards = 0]_vars

\* The state of a session after a miss and a hit on one of the missed
\* cards: three cards are shown, one of them unmatched, 14 remain.
C24_Witness ==
    /\ last.op = "getGameState"
    /\ last.error.status = "ok"
    /\ Len(last.body[1].revealedCards) = 3
    /\ last.body[1].remainingCards = 14
    /\ Len(last.body[1].matchedPairs) = 1

\* The history of a stored session was asked for, with a limit and a page
\* from 1 on, and served.
HistoryPageServed ==
    /\ last.op = "getGameHistoryPage"
    /\ last.error.status = "ok"
    /\ last.limit >= 1
    /\ last.page >= 1

\* C25: the history asked for with a limit and a page holds the moves at
\* indices [(page-1)*limit, page*limit) of the session's log, in recorded
\* order, with pagination.page = page, pagination.limit = limit, total the
\* number of recorded moves, totalPages = ceil(total / limit), hasNext =
\* (page < totalPages) and hasPrev = (page > 1).
C25_HistoryIsRequestedPage ==
    HistoryPageServed =>
        LET log == Session(games, last.sessionKey)[1].moves
            history == last.body[1]
            totalPages == Ceil(Len(log), last.limit)
        IN  /\ history.moves = PageOf(log, last.page, last.limit)
            /\ history.pagination.page = last.page
            /\ history.pagination.limit = last.limit
            /\ history.pagination.total = Len(log)
            /\ history.pagination.totalPages = totalPages
            /\ history.pagination.hasNext = (last.page < totalPages)
            /\ history.pagination.hasPrev = (last.page > 1)

\* The latest moves of a stored session were asked for and served.
LatestMovesServed ==
    /\ last.op = "getLatestMoves"
    /\ last.error.status = "ok"
    /\ last.limit >= 1

\* C26: the history is in descending order of timestamp, the most recent
\* move first, and getLatestMoves(sessionKey, count) answers with the count
\* moves recorded last (all of them when there are fewer).
C26_HistoryIsMostRecentFirst ==
    /\ HistoryPageServed =>
           \A i, j \in 1..Len(last.body[1].moves) :
               i < j => last.body[1].moves[i].timestamp
                            >= last.body[1].moves[j].timestamp
    /\ LatestMovesServed =>
           LET log == Session(games, last.sessionKey)[1].moves
               latest == last.body[1].moves
               count == Min(last.limit, Len(log))
           IN  /\ Len(latest) = count
               /\ \A m \in Range(latest) :
                      \E i \in (Len(log) - count + 1)..Len(log) : log[i] = m

---------------------------------------------------------------------------
(* Moves on cards selected before, and the result of a move.               *)

\* The positions a session's earlier non-matching moves selected.
Missed(game) ==
    UNION {Range(game.moves[i].cards) :
              i \in {k \in DOMAIN game.moves : ~game.moves[k].isMatch}}

\* C27: a move on two distinct unmatched cards of a non-completed session,
\* one of which an earlier non-matching move selected, succeeds and is
\* recorded, however often the card was selected before.
C27_MissedCardCanBeSelectedAgain ==
    [][(PlayableMove /\ Range(last'.cards) \cap Missed(Before[1]) # {}) =>
           /\ last'.error.status = "ok"
           /\ After[1].attempts = Before[1].attempts + 1
           /\ Last(After[1].moves).cards = last'.cards]_vars

\* A non-matching move that succeeded on a card an earlier non-matching
\* move selected: the card has been selected twice and is still unmatched.
C27_Witness ==
    /\ last.op = "makeMove"
    /\ last.error.status = "ok"
    /\ ~last.body[1].isMatch
    /\ LET game == Session(games, last.sessionKey)[1]
       IN  \E i \in 1..(Len(game.moves) - 1) :
               /\ ~game.moves[i].isMatch
               /\ Range(game.moves[i].cards) \cap Range(last.cards) # {}

\* The positions of the unmatched cards of a session.
Unmatched(game) ==
    {game.cards[i].position : i \in {k \in DOMAIN game.cards :
                                        ~game.cards[k].isMatched}}

\* C28: the result of a successful move holds the animals of the two
\* selected cards in the order submitted; gameCompleted is the isCompleted
\* flag of the session after the move, true exactly when the move matched
\* the last two unmatched cards; matchedPositions is the pair of submitted
\* positions when the move matched, and absent when it did not.
C28_ResultDescribesMove ==
    [][(MoveServed /\ last'.error.status = "ok") =>
           LET result == last'.body[1]
               game == Before[1]
           IN  /\ result.animals = <<CardAt(game, last'.cards[1]).animal,
                                     CardAt(game, last'.cards[2]).animal>>
               /\ result.gameCompleted = After[1].isCompleted
               /\ result.gameCompleted <=>
                      (result.isMatch /\ Unmatched(game) = Range(last'.cards))
               /\ result.isMatch => result.matchedPositions = <<last'.cards>>
               /\ ~result.isMatch => result.matchedPositions = <<>>]_vars

\* The move that matched the last pair.
C28_Witness ==
    /\ last.op = "makeMove"
    /\ last.error.status = "ok"
    /\ last.body[1].gameCompleted
    /\ last.body[1].matchedPositions = <<last.cards>>
    /\ last.body[1].animals[1] = last.body[1].animals[2]

---------------------------------------------------------------------------
(* Validation of the leaderboard's arguments.                              *)

\* A bound of a filter is absent or not below 0.
BoundNotNegative(bound) == bound = <<>> \/ bound[1] >= 0

\* The bounds are in order when both are given.
BoundsInOrder(min, max) ==
    (min # <<>> /\ max # <<>>) =>
        Tenths(min) <= Tenths(max)

\* limit is an integer in 1..100, page an integer from 1 on, and the filter
\* has no negative bound, integer attempt bounds and its bounds in order.
WellFormedRequest ==
    /\ Len(last.limit) = 1 /\ last.limit[1] \in 1..100
    /\ Len(last.page) = 1 /\ last.page[1] >= 1
    /\ BoundNotNegative(last.filter.minAttempts)
    /\ BoundNotNegative(last.filter.maxAttempts)
    /\ BoundNotNegative(last.filter.minCompletionTime)
    /\ BoundNotNegative(last.filter.maxCompletionTime)
    /\ Len(last.filter.minAttempts) <= 1
    /\ Len(last.filter.maxAttempts) <= 1
    /\ BoundsInOrder(last.filter.minAttempts, last.filter.maxAttempts)
    /\ BoundsInOrder(last.filter.minCompletionTime,
                     last.filter.maxCompletionTime)

\* C29: getTopGames answers a request that is not well formed with an
\* invalid-input error and without a query to the store; a well-formed
\* request passes validation, so the store is queried; and
\* GamesService.validatePaginationParams accepts a limit and a page exactly
\* when the leaderboard's validation of limit and page does.
C29_MalformedRequestRejectedUnqueried ==
    last.op = "getTopGames" =>
        /\ ~WellFormedRequest =>
               /\ last.error.status = "BadRequest"
               /\ last.queries = 0
               /\ last.body = <<>>
        /\ WellFormedRequest => last.queries = 2
        /\ validatePaginationParams(last.limit, last.page).status = "ok"
               <=> validateLeaderboardPaginationParams(last.limit,
                                                       last.page).status = "ok"

\* A limit of 1.5, with a page and a filter that are in order, was rejected
\* unqueried.
C29_Witness ==
    /\ last.op = "getTopGames"
    /\ last.limit = <<1, 5>>
    /\ last.page = <<1>>
    /\ last.filter = NoFilter
    /\ last.error.status = "BadRequest"
    /\ last.queries = 0

PlayerStatsAsked ==
    /\ last.op = "getPlayerStats"
    /\ validateSessionKey(last.sessionKey).status = "ok"

\* The stored sessions with the key asked about, and the completed ones.
SessionsOfKey == {g \in games : g.sessionKey = last.sessionKey}

CompletedOfKey == {g \in SessionsOfKey : g.isCompleted}

\* The mean of the attempts of the sessions, in hundredths, is the integer
\* nearest to 100 * sum / count (the upper one of two nearest).
IsMeanAttempts(hundredths, sessions) ==
    LET count == Cardinality(sessions)
        total == sumAttempts(sessions)
    IN  /\ 2 * count * hundredths <= 200 * total + count
        /\ 200 * total + count < 2 * count * (hundredths + 1)

\* C30: getPlayerStats for a key that sessions can carry returns the number
\* of stored sessions with that key as totalGames, the number of completed
\* ones as completedGames, the least attempts of the completed ones as
\* bestAttempts and their mean attempts rounded to two decimals as
\* averageAttempts; both are null when none is completed.
C30_StatsAreOverSessionsOfKey ==
    PlayerStatsAsked =>
        /\ last.error.status = "ok"
        /\ Len(last.body) = 1
        /\ LET stats == last.body[1]
           IN  /\ stats.totalGames = Cardinality(SessionsOfKey)
               /\ stats.completedGames = Cardinality(CompletedOfKey)
               /\ CompletedOfKey = {} =>
                      /\ stats.bestAttempts = <<>>
                      /\ stats.averageAttempts = <<>>
               /\ CompletedOfKey # {} =>
                      /\ Len(stats.bestAttempts) = 1
                      /\ \E g \in CompletedOfKey :
                             g.attempts = stats.bestAttempts[1]
                      /\ \A g \in CompletedOfKey :
                             stats.bestAttempts[1] <= g.attempts
                      /\ Len(stats.averageAttempts) = 1
                      /\ IsMeanAttempts(stats.averageAttempts[1],
                                        CompletedOfKey)

---------------------------------------------------------------------------
(* The scores the leaderboard test expects.                                *)

\* C31: the score of 10 attempts in 60000 ms is 470, the score of 50
\* attempts in 300000 ms is 100, the score of 1 attempt in 1000 ms is
\* greater than 900, and the score of 200 attempts in 1000000 ms is 0.
C31_ScoresAreThoseOfTheTest ==
    ScoreCalculated =>
        /\ ScoreIs(10, 60000, 470)
        /\ ScoreIs(50, 300000, 100)
        /\ (last.attempts = 1 /\ last.completionTime = 1000)
               => last.score > 900
        /\ ScoreIs(200, 1000000, 0)

---------------------------------------------------------------------------
(* Invariants of the stored sessions.                                      *)

\* The entries of the move log that matched.
MatchingMoves(game) == SelectSeq(game.moves, LAMBDA m : m.isMatch)

\* C32: under sequential createGame and makeMove calls, the attempts
\* counter of every stored session equals the length of its move log, and
\* the number of log entries that matched equals the length of
\* matchedPairs.
C32_AttemptsCountMovesAndMatchesCountPairs ==
    \A g \in games :
        /\ g.attempts = Len(g.moves)
        /\ Len(MatchingMoves(g)) = Len(g.matchedPairs)

\* A session with a move that matched and a move that missed.
C32_Witness ==
    \E g \in games :
        /\ g.attempts = 3
        /\ Len(g.matchedPairs) = 2
        /\ \E k \in DOMAIN g.moves : ~g.moves[k].isMatch

\* The positions recorded in the matched pairs of a session.
PairedPositions(game) ==
    UNION {Range(game.matchedPairs[k]) : k \in DOMAIN game.matchedPairs}

MatchedCards(game) == {i \in DOMAIN game.cards : game.cards[i].isMatched}

\* C33: in every stored session each recorded pair holds two distinct
\* positions whose cards carry the same animal, no position occurs in more
\* than one pair, a card is matched exactly when its position occurs in a
\* recorded pair, and the number of matched cards is twice the number of
\* recorded pairs and at most 16.
C33_PairsAgreeWithCards ==
    \A g \in games :
        /\ \A k \in DOMAIN g.matchedPairs :
               LET pair == g.matchedPairs[k]
               IN  /\ Len(pair) = 2
                   /\ pair[1] # pair[2]
                   /\ InGrid(pair[1]) /\ InGrid(pair[2])
                   /\ CardAt(g, pair[1]).animal = CardAt(g, pair[2]).animal
        /\ \A k, l \in DOMAIN g.matchedPairs :
               k # l => Range(g.matchedPairs[k])
                            \cap Range(g.matchedPairs[l]) = {}
        /\ \A i \in DOMAIN g.cards :
               g.cards[i].isMatched
                   <=> g.cards[i].position \in PairedPositions(g)
        /\ Cardinality(MatchedCards(g)) = 2 * Len(g.matchedPairs)
        /\ Cardinality(MatchedCards(g)) <= 16

\* A session with two pairs recorded, and a move on one of their cards
\* that was refused.
C33_Witness ==
    /\ last.op = "makeMove"
    /\ last.error.status = "BadRequest"
    /\ Len(last.cards) = 2
    /\ \E g \in games :
           /\ g.sessionKey = last.sessionKey
           /\ Len(g.matchedPairs) = 2
           /\ ~g.isCompleted
           /\ last.cards[1] \in PairedPositions(g)
           /\ last.cards[2] \notin PairedPositions(g)
           /\ InGrid(last.cards[2])
           /\ last.cards[1] # last.cards[2]

\* C34: in every stored session isCompleted is true exactly when endTime
\* is set and exactly when all 16 cards are matched, and an endTime that is
\* set is not earlier than startTime nor than the timestamp of any
\* recorded move.
C34_CompletedIffEndTimeIffAllMatched ==
    \A g \in games :
        /\ g.isCompleted <=> g.endTime # <<>>
        /\ g.isCompleted <=> Cardinality(MatchedCards(g)) = 16
        /\ g.endTime # <<>> =>
               /\ g.endTime[1] >= g.startTime
               /\ \A k \in DOMAIN g.moves :
                      g.endTime[1] >= g.moves[k].timestamp

\* The cards of a session that are not matched, and those with an animal.
UnmatchedCards(game) == DOMAIN game.cards \ MatchedCards(game)

UnmatchedWith(game, animal) ==
    {i \in UnmatchedCards(game) : game.cards[i].animal = animal}

\* The moves on the first unmatched card of the session stored under a key
\* and another unmatched card with its animal that makeMove accepts and
\* answers with isMatch = true.
MovesThatMatch(coll, sessionKey) ==
    LET game   == Session(coll, sessionKey)[1]
        open   == UnmatchedCards(game)
        first  == CHOOSE i \in open : \A j \in open : i <= j
        others == UnmatchedWith(game, game.cards[first].animal) \ {first}
    IN  {positions \in {<<game.cards[first].position, game.cards[j].position>> :
                            j \in others} :
            LET r == makeMove(coll, sessionKey, positions, now + 1, now + 1)
            IN  /\ r.error.status = "ok"
                /\ r.body[1].isMatch}

\* The collection after n further moves that match, or after fewer when
\* the session is completed or no such move is left.
RECURSIVE PlayOut(_, _, _)
PlayOut(coll, sessionKey, n) ==
    LET matching == MovesThatMatch(coll, sessionKey)
    IN  IF n = 0 \/ Session(coll, sessionKey)[1].isCompleted THEN coll
        ELSE IF matching = {} THEN coll
        ELSE PlayOut(makeMove(coll, sessionKey,
                              CHOOSE positions \in matching : TRUE,
                              now + 1, now + 1).games,
                     sessionKey, n - 1)

\* C35: in every stored session that is not completed each animal has no
\* or two unmatched cards, a move that succeeds with isMatch = true exists,
\* and playing matching moves completes the session with the move number
\* (unmatched cards / 2) and not with an earlier one.
C35_SessionCanAlwaysBeCompleted ==
    \A g \in games :
        ~g.isCompleted =>
            LET left   == Cardinality(UnmatchedCards(g)) \div 2
                played == Session(PlayOut(games, g.sessionKey, left),
                                  g.sessionKey)[1]
            IN  /\ \A a \in Range(animals) :
                       Cardinality(UnmatchedWith(g, a)) \in {0, 2}
                /\ left >= 1
                /\ MovesThatMatch(games, g.sessionKey) # {}
                /\ played.isCompleted
                /\ Len(played.moves) = Len(g.moves) + left
                /\ \A k \in (Len(g.moves) + 1)..Len(played.moves) :
                       played.moves[k].isMatch

\* A session with three pairs matched and a miss among its moves, whose
\* last move missed.
C35_Witness ==
    \E g \in games :
        /\ ~g.isCompleted
        /\ Cardinality(UnmatchedCards(g)) = 10
        /\ Len(g.moves) >= 5
        /\ ~g.moves[Len(g.moves)].isMatch

\* The positions selected in the moves a session has recorded, which are
\* its successful moves.
SelectedPositions(game) ==
    UNION {Range(game.moves[k].cards) : k \in DOMAIN game.moves}

RevealedCards(game) == {i \in DOMAIN game.cards : game.cards[i].isRevealed}

\* C36: a card of a stored session is revealed exactly when a successful
\* move of the session selected it, a revealed card stays revealed, also
\* after a move that missed, every matched card is revealed, and
\* getGameState shows no card that no successful move selected.
C36_RevealedIffSelected ==
    /\ [](\A g \in games :
              LET selected == SelectedPositions(g)
              IN  /\ \A i \in DOMAIN g.cards :
                         g.cards[i].isRevealed
                             <=> g.cards[i].position \in selected
                  /\ MatchedCards(g) \subseteq RevealedCards(g))
    /\ [][/\ \A g \in games :
              \E h \in games' :
                  /\ h.sessionKey = g.sessionKey
                  /\ RevealedCards(g) \subseteq RevealedCards(h)
          /\ (last'.op = "getGameState" /\ last'.error.status = "ok") =>
              \A game \in games' :
                  game.sessionKey = last'.sessionKey =>
                      LET shown == last'.body[1].revealedCards
                          selected == SelectedPositions(game)
                      IN  \A k \in DOMAIN shown :
                              /\ shown[k].position \in selected
                              /\ shown[k].animal =
                                     CardAt(game, shown[k].position).animal
      ]_vars

\* The state of a session was shown after a move that missed: it shows
\* the two cards of that move and the cards selected before, and none of
\* the other cards.
C36_Witness ==
    /\ last.op = "getGameState"
    /\ last.error.status = "ok"
    /\ \E g \in games :
           /\ g.sessionKey = last.sessionKey
           /\ Len(g.moves) >= 2
           /\ ~g.moves[Len(g.moves)].isMatch
           /\ Cardinality(RevealedCards(g)) > Cardinality(MatchedCards(g))
           /\ Cardinality(RevealedCards(g)) < 16
           /\ Len(last.body[1].revealedCards) = Cardinality(RevealedCards(g))

---------------------------------------------------------------------------
(* A key whose session is completed.                                       *)

\* createGame was asked for a key under which a completed session is
\* stored.
CompletedKeyCreated ==
    /\ last'.op = "createGame"
    /\ Before # <<>>
    /\ Before[1].isCompleted

\* C37: createGame with the key of a completed session succeeds and stores
\* a new session that is not completed, and afterwards findGame with that
\* key, which makeMove, getGameState and getGameHistory call, returns a
\* session that is not completed.
C37_CompletedKeyStartsNewSession ==
    [][CompletedKeyCreated =>
           /\ last'.error.status = "ok"
           /\ \E g \in games' :
                  /\ g.sessionKey = last'.sessionKey
                  /\ ~g.isCompleted
                  /\ g.moves = <<>>
           /\ findGame(games', last'.sessionKey).error.status = "ok"
           /\ ~findGame(games', last'.sessionKey).body[1].isCompleted]_vars

---------------------------------------------------------------------------
(* The rank of a player.                                                   *)

PlayerRankAsked == last.op = "getPlayerRank"

\* The completed sessions of the store, and those that come strictly
\* before a session in the order of the leaderboard.
CompletedSessions == {g \in games : g.isCompleted}

StrictlyBetter(game) ==
    {g \in CompletedSessions :
        \/ g.attempts < game.attempts
        \/ g.attempts = game.attempts /\ g.endTime[1] < game.endTime[1]}

NoTies ==
    \A g, h \in CompletedSessions :
        (g.attempts = h.attempts /\ g.endTime = h.endTime) => g = h

\* C38: for the key of a completed session getPlayerRank returns rank = 1 +
\* the number of completed sessions strictly better in the order (attempts
\* ascending, then endTime ascending) and totalPlayers = the number of
\* completed sessions, so that 1 <= rank <= totalPlayers, and without ties
\* the rank is the index of the session in the unfiltered leaderboard
\* ordering; for a key without a completed session it fails with an
\* invalid-input error.
C38_RankCountsBetterSessions ==
    PlayerRankAsked =>
        /\ \A g \in CompletedOfKey :
               /\ last.error.status = "ok"
               /\ Len(last.body) = 1
               /\ last.body[1].rank = 1 + Cardinality(StrictlyBetter(g))
               /\ last.body[1].totalPlayers = Cardinality(CompletedSessions)
               /\ 1 <= last.body[1].rank
               /\ last.body[1].rank <= last.body[1].totalPlayers
               /\ NoTies =>
                      \A found \in findSorted(games, NoFilter) :
                          found[last.body[1].rank] = g
        /\ CompletedOfKey = {} => last.error.status = "BadRequest"

---------------------------------------------------------------------------
(* The keys of the game operations and those of the leaderboard.           *)

\* The statistics or the rank were asked for a key under which createGame
\* stored a session.
StoredKeyAsked ==
    /\ last.op \in {"getPlayerStats", "getPlayerRank"}
    /\ SessionsOfKey # {}

\* C39: getPlayerStats and getPlayerRank accept every key under which
\* createGame stored a session: the statistics of such a key are returned,
\* and its rank is returned when its session is completed; neither
\* operation rejects the key as malformed.
C39_StoredKeyIsAccepted ==
    StoredKeyAsked =>
        /\ validateSessionKey(last.sessionKey).status = "ok"
        /\ validateLeaderboardSessionKey(last.sessionKey).status = "ok"
        /\ last.op = "getPlayerStats" => last.error.status = "ok"
        /\ (last.op = "getPlayerRank" /\ CompletedOfKey # {})
               => last.error.status = "ok"
        /\ (last.op = "getPlayerRank" /\ CompletedOfKey = {})
               => last.error = BadRequestException("Player has no completed games")

===========================================================================
